---- MODULE Spec2Model ----
(***************************************************************************)
(* Model of semgrep-ghes-util (src/semgrep_ghes_util/cli.py and its two    *)
(* clients): the reconciliation functions and the batch loops of the       *)
(* command handlers.                                                       *)
(*                                                                         *)
(* A Python str is a sequence of one-character strings, so that lower(),   *)
(* rstrip("/") and URL parsing are computed character by character.        *)
(* Python's None for an optional str is the model value None.             *)
(***************************************************************************)
EXTENDS Integers, Sequences, FiniteSets, TLC

VARIABLES
    pc,          \* position of the running command
    args,        \* the parsed command line (argparse.Namespace)
    world,       \* what the two servers hold: orgs, configs, repos
    log,         \* network calls and sleeps issued so far, in order
    loc,         \* the locals of the running handler
    exit_code    \* "running", then the process exit status ("0", "1", "2")

vars == <<pc, args, world, log, loc, exit_code>>

\* None where a str is expected: a sequence that is no character sequence.
None == <<"None">>

\* None where a list of str is expected.
NoList == <<None>>

\* None where a ScmStatus or a ScmTokenScopes is expected.
NoneObj == [is_none |-> TRUE]

\* ---------------------------------------------------------------- bounds

MaxOrgs == 3
MaxConfigs == 2

\* --------------------------------------------------------------- strings

\* str.lower() on the letters the model uses; any other character is kept.
LowerChar(c) ==
    CASE c = "G" -> "g"
      [] c = "H" -> "h"
      [] c = "O" -> "o"
      [] c = "P" -> "p"
      [] c = "Q" -> "q"
      [] c = "S" -> "s"
      [] OTHER -> c

Lower(s) == [k \in 1..Len(s) |-> LowerChar(s[k])]

\* str.rstrip("/"): every trailing "/" is removed.
RECURSIVE RStripSlash(_)
RStripSlash(s) ==
    IF s # <<>> /\ s[Len(s)] = "/" THEN RStripSlash(SubSeq(s, 1, Len(s) - 1)) ELSE s

\* Python truthiness of an optional str: None and "" are falsy.
Truthy(s) == s # None /\ s # <<>>

\* Python truthiness of an optional list of str.
TruthyList(l) == l # NoList /\ l # <<>>

\* x.rstrip("/").lower()
NormalizeUrl(u) == Lower(RStripSlash(u))

\* [x for x in s if P(x)]
RECURSIVE SelectSeqIdx(_, _)
SelectSeqIdx(s, keep) ==
    IF s = <<>> THEN <<>>
    ELSE LET rest == SelectSeqIdx(Tail(s), [k \in 1..(Len(s) - 1) |-> keep[k + 1]])
         IN IF keep[1] THEN <<Head(s)>> \o rest ELSE rest

Range(s) == {s[k] : k \in 1..Len(s)}

SeqsUpTo(S, n) == UNION {[1..k -> S] : k \in 0..n}

\* ----------------------------------------------------------- the servers

UrlG == <<"s", ":", "/", "/", "g">>
UrlGUpper == <<"S", ":", "/", "/", "G", "/">>
UrlGSlashes == <<"s", ":", "/", "/", "G", "/", "/">>
UrlH == <<"s", ":", "/", "/", "h">>

Logins == {<<"o">>, <<"O">>, <<"p">>, <<"q">>}
Namespaces == {<<"o">>, <<"O">>, <<"p">>}
BaseUrls == {None, UrlG, UrlGUpper, UrlH}
GhesUrls == {UrlG, UrlGSlashes}

\* GithubOrganization (github_client.py): id and login.
Organization(i, login) == [id |-> i, login |-> login]

\* ScmConfig (semgrep_client.py): the fields the handlers read.
ScmConfig(i, ns, base, status, scopes) ==
    [id |-> i, namespace |-> ns, base_url |-> base, status |-> status,
     token_scopes |-> scopes]

\* A GHES instance holds organizations with distinct logins (case-insensitive).
DistinctLogins(s) ==
    \A j, k \in 1..Len(s) : j # k => Lower(s[j]) # Lower(s[k])

OrgInventories ==
    {[k \in 1..Len(s) |-> Organization(k, s[k])] :
        s \in {t \in SeqsUpTo(Logins, MaxOrgs) : DistinctLogins(t)}}

PlainConfigs == {[namespace |-> n, base_url |-> b] : n \in Namespaces, b \in BaseUrls}

ConfigInventories ==
    {[k \in 1..Len(s) |-> ScmConfig(k, s[k].namespace, s[k].base_url, NoneObj, NoneObj)] :
        s \in SeqsUpTo(PlainConfigs, MaxConfigs)}

\* ------------------------------------------------------------- URL parsing

\* The position of the first character of s, from position from on, that is in
\* chars; 0 when there is none (str.find, 1-based).
RECURSIVE FindFrom(_, _, _)
FindFrom(s, chars, from) ==
    IF from > Len(s) THEN 0
    ELSE IF s[from] \in chars THEN from
    ELSE FindFrom(s, chars, from + 1)

\* urllib's scheme_chars on the model's alphabet: the letters.
IsSchemeChar(c) == c \notin {":", "/", "?", "#", "[", "]"}

\* urlsplit: the scheme is the text before the first ":" when that text is
\* made of scheme characters; it is lower-cased.  i is url.find(":") (1-based).
SplitScheme(url, i) ==
    IF i > 1 /\ \A k \in 1..(i - 1) : IsSchemeChar(url[k])
    THEN [scheme |-> Lower(SubSeq(url, 1, i - 1)), rest |-> SubSeq(url, i + 1, Len(url))]
    ELSE [scheme |-> <<>>, rest |-> url]

\* _splitnetloc(url, 2): the netloc runs to the first "/", "?" or "#" (at delim).
SplitNetlocAt(rest, delim) ==
    IF delim = 0
    THEN [netloc |-> SubSeq(rest, 3, Len(rest)), after |-> <<>>]
    ELSE [netloc |-> SubSeq(rest, 3, delim - 1), after |-> SubSeq(rest, delim, Len(rest))]

\* if url[:2] == "//": netloc, url = _splitnetloc(url, 2)
SplitNetloc(rest) ==
    IF Len(rest) >= 2 /\ rest[1] = "/" /\ rest[2] = "/"
    THEN SplitNetlocAt(rest, FindFrom(rest, {"/", "?", "#"}, 3))
    ELSE [netloc |-> <<>>, after |-> rest]

\* The path ends at the first "?" or "#" (at cut).
CutPath(after, cut) == IF cut = 0 THEN after ELSE SubSeq(after, 1, cut - 1)

\* urlsplit raises ValueError on a netloc with "[" and no "]", or "]" and no "[".
UrlParts(scheme, n) ==
    [scheme |-> scheme, netloc |-> n.netloc,
     path |-> CutPath(n.after, FindFrom(n.after, {"?", "#"}, 1)),
     raises |-> ("[" \in Range(n.netloc)) # ("]" \in Range(n.netloc))]

UrlFromScheme(s) == UrlParts(s.scheme, SplitNetloc(s.rest))

\* urllib.parse.urlparse(url): scheme, netloc and path of a str without
\* whitespace, control characters or ";".
urlparse(url) == UrlFromScheme(SplitScheme(url, FindFrom(url, {":"}, 1)))

\* str.strip("/")
RECURSIVE LStripSlash(_)
LStripSlash(s) ==
    IF s # <<>> /\ s[1] = "/" THEN LStripSlash(Tail(s)) ELSE s

StripSlash(s) == LStripSlash(RStripSlash(s))

\* s.split("/")[0]
PartBefore(s, k) == IF k = 0 THEN s ELSE SubSeq(s, 1, k - 1)

\* The whole stripped path in place of its first part.
WholePath(s) == s

FirstPart(s) == PartBefore(s, FindFrom(s, {"/"}, 1))

\* The pair get_namespace_from_url builds from a parsed URL; None when
\* urlparse raised.  str.split always returns at least one part, so path_parts
\* is never empty.
NamespaceOfParsed(parsed) ==
    IF parsed.raises THEN NoneObj
    ELSE [is_none |-> FALSE,
          base_url |-> parsed.scheme \o <<":", "/", "/">> \o parsed.netloc,
          namespace |-> FirstPart(StripSlash(parsed.path))]

\* get_namespace_from_url: (base_url, namespace), or None.
get_namespace_from_url(url) == NamespaceOfParsed(urlparse(url))

\* ----------------------------------------------------------- health, scopes

ALL_SCOPES ==
    <<"read_metadata", "read_pull_request", "write_pull_request_comment",
      "read_contents", "read_members", "manage_webhooks", "write_contents">>

\* ScmStatus: the ok flag.
ScmStatus(ok) == [is_none |-> FALSE, ok |-> ok]

\* ScmTokenScopes: granted is the set of scope names whose field is True.
ScmTokenScopes(granted) ==
    [is_none |-> FALSE, granted |-> granted]

\* getattr(self, scope, False) is truthy: a scope field that is True, or another
\* attribute of the object with a truthy value (the bound methods, the list
\* ALL_SCOPES, the property has_required_scopes when it is True).
ScopeAttrTruthy(token_scopes, scope) ==
    \/ scope \in token_scopes.granted
    \/ scope \in {"has_scopes", "missing_scopes", "ALL_SCOPES"}
    \/ /\ scope = "has_required_scopes"
       /\ {ALL_SCOPES[k] : k \in 1..6} \subseteq token_scopes.granted

\* The loop of has_scopes with the test inverted.
has_scopes_any(token_scopes, required) ==
    \E k \in 1..Len(required) : ScopeAttrTruthy(token_scopes, required[k])

\* ScmTokenScopes.has_scopes
has_scopes(token_scopes, required) ==
    \A k \in 1..Len(required) : ScopeAttrTruthy(token_scopes, required[k])

\* is_healthy without the test of status.ok.
is_healthy_with_status(config) == config.status # NoneObj

\* ScmConfig.is_healthy
is_healthy(config) == config.status # NoneObj /\ config.status.ok

\* ScmConfig.meets_requirements
meets_requirements(config, required_scopes) ==
    IF ~is_healthy(config) THEN FALSE
    ELSE IF Truthy(required_scopes) /\ config.token_scopes # NoneObj
         THEN has_scopes(config.token_scopes, required_scopes)
    ELSE TRUE

\* Repo (semgrep_client.py): the fields the handlers read.
Repo(i, url, is_archived) == [id |-> i, url |-> url, is_archived |-> is_archived]

\* (base_url.lower(), namespace.lower()) in healthy_namespaces
ParsedIsHealthy(parsed, healthy_namespaces) ==
    /\ parsed # NoneObj
    /\ <<Lower(parsed.base_url), Lower(parsed.namespace)>> \in healthy_namespaces

\* The body of the loop over repos: healthy or skipped.
RepoIsHealthy(repo, healthy_namespaces) ==
    /\ Truthy(repo.url)
    /\ ParsedIsHealthy(get_namespace_from_url(repo.url), healthy_namespaces)

\* healthy_namespaces without the rstrip("/") of the base URL.
HealthyNamespacesNoStrip(scm_configs, required_scopes) ==
    {<<Lower(c.base_url), Lower(c.namespace)>> :
        c \in {d \in Range(scm_configs) :
                  meets_requirements(d, required_scopes) /\ Truthy(d.base_url)}}

\* The set of (base_url, namespace) pairs of the configs that meet the requirements.
HealthyNamespaces(scm_configs, required_scopes) ==
    {<<NormalizeUrl(c.base_url), Lower(c.namespace)>> :
        c \in {d \in Range(scm_configs) :
                  meets_requirements(d, required_scopes) /\ Truthy(d.base_url)}}

\* The loop with skipped.append(repo) outside the else branch.
PartitionSkipsAll(repos, healthy_namespaces) ==
    [healthy |-> SelectSeqIdx(repos,
                    [k \in 1..Len(repos) |-> RepoIsHealthy(repos[k], healthy_namespaces)]),
     skipped |-> repos]

PartitionRepos(repos, healthy_namespaces) ==
    [healthy |-> SelectSeqIdx(repos,
                    [k \in 1..Len(repos) |-> RepoIsHealthy(repos[k], healthy_namespaces)]),
     skipped |-> SelectSeqIdx(repos,
                    [k \in 1..Len(repos) |-> ~RepoIsHealthy(repos[k], healthy_namespaces)])]

\* filter_repos_by_healthy_scm: (healthy, skipped)
filter_repos_by_healthy_scm(repos, scm_configs, required_scopes) ==
    PartitionRepos(repos, HealthyNamespaces(scm_configs, required_scopes))

\* ------------------------------------------------------ get_missing_orgs

\* config.base_url and config.base_url.rstrip("/").lower() == normalized_ghes_url
MatchesGhesMutantNoLower(config, normalized_ghes_url) ==
    /\ Truthy(config.base_url)
    /\ RStripSlash(config.base_url) = normalized_ghes_url

MatchesGhes(config, normalized_ghes_url) ==
    /\ Truthy(config.base_url)
    /\ NormalizeUrl(config.base_url) = normalized_ghes_url

ghes_configs_of(all_configs, ghes_url) ==
    SelectSeqIdx(all_configs,
        [k \in 1..Len(all_configs) |-> MatchesGhes(all_configs[k], NormalizeUrl(ghes_url))])

configured_orgs_mutant_all(all_configs, the_ghes_configs) ==
    {Lower(c.namespace) : c \in Range(all_configs)}

configured_orgs_of(all_configs, the_ghes_configs) ==
    {Lower(c.namespace) : c \in Range(the_ghes_configs)}

\* get_missing_orgs: (missing_orgs, ghes_configs)
get_missing_orgs(ghes_url, ghes_orgs, all_configs) ==
    LET ghes_org_names == {Lower(org.login) : org \in Range(ghes_orgs)}
        the_ghes_configs == ghes_configs_of(all_configs, ghes_url)
        configured_orgs == configured_orgs_of(all_configs, the_ghes_configs)
        missing_org_names == ghes_org_names \ configured_orgs
        missing_orgs ==
            SelectSeqIdx(ghes_orgs,
                [k \in 1..Len(ghes_orgs) |-> Lower(ghes_orgs[k].login) \in missing_org_names])
    IN [missing_orgs |-> missing_orgs, ghes_configs |-> the_ghes_configs]

\* ------------------------------------------------ list-missing-configs run

\* os.environ: the two token variables, each unset (None), empty or set.
TokenSet == <<"t">>

FullEnv == [SEMGREP_APP_TOKEN |-> TokenSet, GHES_TOKEN |-> TokenSet]

\* argparse.Namespace: every option of every subcommand, with its default where
\* the model does not vary it; env is the environment the process runs in.
NoArgs ==
    [command |-> "", ghes_url |-> None, orgs |-> NoList, dry_run |-> FALSE,
     delay |-> 0, check_delay |-> 0, batch_size |-> 1, check_scm |-> TRUE,
     required_scopes |-> None, skip_scan_check |-> FALSE, full_scan |-> TRUE,
     ghes_org |-> None, orgs_file |-> NoList, scm_id |-> 0, subscribe |-> "None",
     auto_scan |-> "None", use_network_broker |-> "None", diff_enabled |-> "None",
     env |-> FullEnv]

\* The locals of the handlers; results keeps the result of every iteration of
\* the check loop.
NoLoc ==
    [missing_orgs |-> <<>>, existing_configs |-> <<>>, printed |-> <<>>,
     scm_configs |-> <<>>, repos |-> <<>>, skipped |-> <<>>,
     repo_ids |-> <<>>, num_batches |-> 0, i |-> 0,
     all_updated |-> <<>>, failed_batches |-> <<>>,
     failed_count |-> 0, triggered_count |-> 0,
     pending_batch |-> <<>>, checked_count |-> 0, skipped_count |-> 0,
     batch_num |-> 0,
     matching_configs |-> <<>>, deleted |-> 0, failed |-> 0,
     orgs_to_create |-> <<>>, created |-> 0, unhealthy |-> 0, updated |-> 0,
     healthy |-> 0, results |-> <<>>]

\* One network call (or sleep) as issued: the client operation, its argument,
\* whether it returned (ok) or raised, and what it returned.
CallRes(op, arg, ok, res) == [op |-> op, arg |-> arg, ok |-> ok, res |-> res]

Call(op, arg, ok) == CallRes(op, arg, ok, <<>>)

\* time.sleep(args.delay) and time.sleep(args.check_delay)
Sleep(which) == Call("sleep", <<which>>, TRUE)

InitMissing ==
    /\ pc = "list_missing_start"
    /\ \E g \in GhesUrls : args = [NoArgs EXCEPT !.command = "list-missing-configs", !.ghes_url = g]
    /\ \E o \in OrgInventories, c \in ConfigInventories :
          world = [orgs |-> o, configs |-> c, repos |-> <<>>]
    /\ log = <<>>
    /\ loc = NoLoc
    /\ exit_code = "running"

\* missing_orgs, existing_configs = get_missing_orgs(...): both inventories are
\* fetched, then the difference is computed.
GetMissingOrgs ==
    /\ pc = "list_missing_start"
    /\ LET r == get_missing_orgs(args.ghes_url, world.orgs, world.configs)
       IN loc' = [loc EXCEPT !.missing_orgs = r.missing_orgs,
                             !.existing_configs = r.ghes_configs]
    /\ log' = log \o <<Call("list_organizations", <<>>, TRUE),
                       Call("get_deployment", <<>>, TRUE),
                       Call("list_scm_configs", <<>>, TRUE)>>
    /\ pc' = "list_missing_report"
    /\ UNCHANGED <<args, world, exit_code>>

\* cmd_scm_list_missing_configs: the report lists the missing logins.
ListMissingReport ==
    /\ pc = "list_missing_report"
    /\ loc' = [loc EXCEPT !.printed = [k \in 1..Len(loc.missing_orgs) |-> loc.missing_orgs[k].login]]
    /\ pc' = "done"
    /\ exit_code' = "0"
    /\ UNCHANGED <<args, world, log>>

NextMissing == GetMissingOrgs \/ ListMissingReport

SpecMissing == InitMissing /\ [][NextMissing]_vars

\* ====================================================== the batch commands

MaxRepos == 3
MaxBatch == 2
MaxBatchConfigs == 2

RepoUrlGO == <<"s", ":", "/", "/", "G", "/", "o", "/", "r">>
RepoUrlHO == <<"s", ":", "/", "/", "h", "/", "o", "/", "r">>

\* The repositories a search returns: on the GHES host, archived or not, or on
\* another host.  A repository's id is its position in the inventory.
RepoKinds ==
    {[url |-> RepoUrlGO, is_archived |-> FALSE],
     [url |-> RepoUrlGO, is_archived |-> TRUE],
     [url |-> RepoUrlHO, is_archived |-> FALSE]}

RepoInventories ==
    {[k \in 1..Len(s) |-> Repo(k, s[k].url, s[k].is_archived)] :
        s \in SeqsUpTo(RepoKinds, MaxRepos)}

\* The integration configs the scanning service holds in the batch runs.
BatchConfigKinds ==
    {[namespace |-> <<"O">>, base_url |-> UrlGUpper, status |-> ScmStatus(TRUE)],
     [namespace |-> <<"p">>, base_url |-> UrlG, status |-> ScmStatus(FALSE)],
     [namespace |-> <<"o">>, base_url |-> UrlH, status |-> ScmStatus(TRUE)]}

BatchConfigInventories ==
    {[k \in 1..Len(s) |-> ScmConfig(k, s[k].namespace, s[k].base_url, s[k].status, NoneObj)] :
        s \in SeqsUpTo(BatchConfigKinds, MaxBatchConfigs)}

\* The configs in the runs of the repo commands: the GHES organization healthy,
\* or the GHES organization unhealthy and the other host's healthy.
RepoCmdConfigInventories ==
    {<<ScmConfig(1, <<"O">>, UrlGUpper, ScmStatus(TRUE), NoneObj)>>,
     <<ScmConfig(1, <<"o">>, UrlG, ScmStatus(FALSE), NoneObj),
       ScmConfig(2, <<"o">>, UrlH, ScmStatus(TRUE), NoneObj)>>}

Delays == {0, 1}
BatchSizes == 1..MaxBatch

\* ------------------------------------------------------------------ main

\* --orgs of delete-configs without required=True.
OrgsOptional(command) == FALSE

\* add_argument("--orgs", nargs="+", required=True) of delete-configs.
OrgsRequired(command) == command = "delete-configs"

\* add_ghes_url_arg(subparser, required=True), with GHES_URL unset.
GhesUrlRequired(command) ==
    command \in {"list-missing-configs", "create-config", "create-missing-configs",
                 "update-configs", "check-configs", "delete-configs"}

\* parser.parse_args() exits with status 2 on a missing required option and on
\* an option with nargs="+" given no value.
ArgparseRejects(a) ==
    \/ a.orgs = <<>>
    \/ OrgsRequired(a.command) /\ a.orgs = NoList
    \/ GhesUrlRequired(a.command) /\ a.ghes_url = None
    \/ a.command = "create-config" /\ a.ghes_org = None

\* The exit status of a run that exits 1 when units failed.
ExitStatusByFailures(failed) == IF failed > 0 THEN "1" ELSE "0"

\* The handler returns after its summary and main() falls off its end: the exit
\* status is 0 whatever the failure counter holds.
ExitStatus(failed) == "0"

\* The get_env_or_exit calls that open each handler.
NoEnvRequired(command) == {}

RequiredEnv(command) ==
    IF command \in {"create-config", "create-missing-configs"}
    THEN {"SEMGREP_APP_TOKEN", "GHES_TOKEN"}
    ELSE {"SEMGREP_APP_TOKEN"}

\* get_env_or_exit: "if not value" holds of an unset and of an empty variable.
EnvMissing(env, var_name) == env[var_name] = None \/ env[var_name] = <<>>

MissingEnv(a) == \E v \in RequiredEnv(a.command) : EnvMissing(a.env, v)

\* parse_args, then args.func(args) up to the handler's get_env_or_exit calls,
\* which come before any client is built.
Main ==
    /\ pc = "main"
    /\ IF ArgparseRejects(args)
       THEN pc' = "exit" /\ exit_code' = "2"
       ELSE IF MissingEnv(args)
       THEN pc' = "exit" /\ exit_code' = "1"
       ELSE pc' = args.command /\ UNCHANGED exit_code
    /\ UNCHANGED <<args, world, log, loc>>

\* ------------------------------------------- onboard-repos, trigger-scans

\* A loop that is never left: after the last unit it waits for another.
LoopNeverLeft(ok, i, step, n) == TRUE

\* A loop whose body lets the error of a unit end the loop.
LoopStopsOnError(ok, i, step, n) == ok /\ i + step < n

\* A handler without the dry-run return.
DryRunIgnored(a) == FALSE

\* for ... in range(...) / enumerate(...): try: ... except Exception: ...  The body
\* catches every error of the unit's call, so the loop goes on to the next unit
\* whether the call returned (ok) or raised.
LoopGoesOn(ok, i, step, n) == i + step < n

\* if args.dry_run: ...; return
DryRunReturns(a) == a.dry_run

\* get_namespace_from_url(r.url) and get_namespace_from_url(r.url)[0].lower() == normalized_ghes_url
ParsedOnGhes(parsed, normalized_ghes_url) ==
    parsed # NoneObj /\ Lower(parsed.base_url) = normalized_ghes_url

\* [r for r in repos if r.url and get_namespace_from_url(r.url) and
\*     get_namespace_from_url(r.url)[0].lower() == normalized_ghes_url]
RepoOnGhes(r, normalized_ghes_url) ==
    Truthy(r.url) /\ ParsedOnGhes(get_namespace_from_url(r.url), normalized_ghes_url)

\* scm_configs as fetched and filtered to the GHES URL (no fetch without --check-scm).
FetchedScmConfigs(a, w) ==
    IF ~a.check_scm THEN <<>>
    ELSE IF Truthy(a.ghes_url)
         THEN ghes_configs_of(w.configs, a.ghes_url)
    ELSE w.configs

\* The calls of the fetch phase: the deployment, the configs with --check-scm,
\* the repo search; fails names the fetch that raises, if any, and ends the run.
FetchCalls(a, fails) ==
    <<Call("get_deployment", <<>>, fails # "get_deployment")>>
    \o (IF a.check_scm /\ fails # "get_deployment"
        THEN <<Call("list_scm_configs", <<>>, fails # "list_scm_configs")>> ELSE <<>>)
    \o (IF fails \notin {"get_deployment", "list_scm_configs"}
        THEN <<Call("search_repos", <<>>, fails # "search_repos")>> ELSE <<>>)

\* The repos with the archived ones left in.
KeepArchived(repos) == repos

\* repos = [r for r in repos if not r.is_archived]
WithoutArchived(repos) ==
    SelectSeqIdx(repos, [k \in 1..Len(repos) |-> ~repos[k].is_archived])

\* The filter by GHES URL, when one is given.
OnGhesOnly(a, repos) ==
    IF Truthy(a.ghes_url)
    THEN SelectSeqIdx(repos,
            [k \in 1..Len(repos) |-> RepoOnGhes(repos[k], NormalizeUrl(a.ghes_url))])
    ELSE repos

\* The filter by healthy SCM configs, with --check-scm.
HealthyOnly(a, repos, scm_configs) ==
    IF a.check_scm
    THEN filter_repos_by_healthy_scm(repos, scm_configs, a.required_scopes)
    ELSE [healthy |-> repos, skipped |-> <<>>]

\* The handler returns early on an empty list after each filter.
TargetsOrReturn(scm_configs, parts) ==
    [end |-> IF parts.healthy = <<>> THEN "return" ELSE "targets",
     locals |-> [NoLoc EXCEPT !.scm_configs = scm_configs,
                              !.repos = parts.healthy,
                              !.skipped = parts.skipped]]

\* The fetch and filter phase both handlers share, up to the target list: how
\* the phase ends (crash: a fetch raised; return: nothing to do; targets: on to
\* the dry-run check) and the locals it leaves.
FilterRepos(a, scm_configs, repos) ==
    TargetsOrReturn(scm_configs,
        HealthyOnly(a, OnGhesOnly(a, WithoutArchived(repos)), scm_configs))

\* A fetch phase that goes on with the repos at hand when a fetch raised.
PrepareReposPartial(a, w, fails) ==
    [calls |-> FetchCalls(a, fails)] @@ FilterRepos(a, FetchedScmConfigs(a, w), w.repos)

PrepareRepos(a, w, fails) ==
    IF fails # "none"
    THEN [calls |-> FetchCalls(a, fails), end |-> "crash", locals |-> NoLoc]
    ELSE [calls |-> FetchCalls(a, fails)] @@ FilterRepos(a, FetchedScmConfigs(a, w), w.repos)

FetchFailures(a) ==
    {"none", "get_deployment", "search_repos"} \cup
        (IF a.check_scm THEN {"list_scm_configs"} ELSE {})

Ids(seq) == [k \in 1..Len(seq) |-> seq[k].id]

\* (len(repo_ids) + args.batch_size - 1) // args.batch_size
NumBatches(n, batch_size) == (n + batch_size - 1) \div batch_size

\* A slice that starts one id early after the first chunk.
ChunkOverlapping(repo_ids, i, batch_size) ==
    SubSeq(repo_ids, IF i = 0 THEN 1 ELSE i,
           IF i + batch_size < Len(repo_ids) THEN i + batch_size ELSE Len(repo_ids))

\* repo_ids[i : i + args.batch_size]
Chunk(repo_ids, i, batch_size) ==
    SubSeq(repo_ids, i + 1, IF i + batch_size < Len(repo_ids) THEN i + batch_size ELSE Len(repo_ids))

\* The delay without the test for the last chunk.
DelayAfterEveryChunk(delay, i, batch_size, n) ==
    IF delay > 0 THEN <<Sleep("delay")>> ELSE <<>>

\* A loop that searches the repositories again after every chunk.
SearchAfterChunk(delay, i, batch_size, n) == <<Call("search_repos", <<>>, TRUE)>>

\* if args.delay > 0 and i + args.batch_size < len(repo_ids): time.sleep(args.delay)
DelayAfterChunk(delay, i, batch_size, n) ==
    IF delay > 0 /\ i + batch_size < n THEN <<Sleep("delay")>> ELSE <<>>

\* cmd_scm_onboard_repos up to the start of the batch loop.
OnboardPrepare ==
    /\ pc = "onboard-repos"
    /\ \E fails \in FetchFailures(args) :
          LET r == PrepareRepos(args, world, fails)
              repo_ids == Ids(r.locals.repos)
          IN /\ log' = log \o r.calls
             /\ loc' = IF r.end = "targets"
                       THEN [r.locals EXCEPT !.repo_ids = repo_ids,
                                             !.num_batches = NumBatches(Len(repo_ids), args.batch_size)]
                       ELSE r.locals
             /\ pc' = IF r.end = "crash" THEN "crashed"
                      ELSE IF r.end = "return" \/ DryRunReturns(args) THEN "done"
                      ELSE "onboard_loop"
             /\ exit_code' = IF r.end = "crash" THEN "1"
                             ELSE IF r.end = "return" \/ DryRunReturns(args) THEN "0"
                             ELSE exit_code
    /\ UNCHANGED <<args, world>>

\* The names bulk_update_repos returns: the server reports every repo of the
\* batch as updated, or all but the last.  A repo's name is modelled by its id.
UpdatedNames(batch, answer) ==
    IF answer = "all" THEN batch ELSE SubSeq(batch, 1, Len(batch) - 1)

\* One iteration of the onboard batch loop.
OnboardBatch ==
    /\ pc = "onboard_loop"
    /\ loc.i < Len(loc.repo_ids)
    /\ \E answer \in {"error", "all", "some"} :
          LET batch == Chunk(loc.repo_ids, loc.i, args.batch_size)
              batch_num == (loc.i \div args.batch_size) + 1
              updated == UpdatedNames(batch, answer)
          IN /\ log' = log
                    \o <<CallRes("bulk_update_repos", batch, answer # "error",
                                 IF answer = "error" THEN <<>> ELSE updated)>>
                    \o DelayAfterChunk(args.delay, loc.i, args.batch_size, Len(loc.repo_ids))
             /\ loc' = IF answer = "error"
                       THEN [loc EXCEPT !.failed_count = @ + Len(batch),
                                        !.failed_batches = Append(@, [batch_num |-> batch_num, batch |-> batch, error |-> "str(e)"]),
                                        !.i = @ + args.batch_size]
                       ELSE [loc EXCEPT !.all_updated = @ \o updated,
                                        !.i = @ + args.batch_size]
             /\ pc' = IF LoopGoesOn(answer # "error", loc.i, args.batch_size, Len(loc.repo_ids))
                      THEN "onboard_loop" ELSE "onboard_report"
    /\ UNCHANGED <<args, world, exit_code>>

\* print("Done. Successfully onboarded: ..., Failed: ...")
OnboardReport ==
    /\ pc = "onboard_report"
    /\ loc' = [loc EXCEPT !.printed = <<Len(loc.all_updated), loc.failed_count>>]
    /\ pc' = "done"
    /\ exit_code' = ExitStatus(loc.failed_count)
    /\ UNCHANGED <<args, world, log>>

\* cmd_scm_trigger_scans up to the choice of the batching policy.
TriggerPrepare ==
    /\ pc = "trigger-scans"
    /\ \E fails \in FetchFailures(args) :
          LET r == PrepareRepos(args, world, fails)
              repo_ids == Ids(r.locals.repos)
          IN /\ log' = log \o r.calls
             /\ loc' = IF r.end = "targets" /\ ~DryRunReturns(args) /\ args.skip_scan_check
                       THEN [r.locals EXCEPT !.repo_ids = repo_ids,
                                             !.num_batches = NumBatches(Len(repo_ids), args.batch_size)]
                       ELSE r.locals
             /\ pc' = IF r.end = "crash" THEN "crashed"
                      ELSE IF r.end = "return" \/ DryRunReturns(args) THEN "done"
                      ELSE IF args.skip_scan_check THEN "trigger_loop"
                      ELSE "trigger_stream"
             /\ exit_code' = IF r.end = "crash" THEN "1"
                             ELSE IF r.end = "return" \/ DryRunReturns(args) THEN "0"
                             ELSE exit_code
    /\ UNCHANGED <<args, world>>

\* One iteration of the pre-computed trigger loop (--skip-scan-check).
TriggerBatch ==
    /\ pc = "trigger_loop"
    /\ loc.i < Len(loc.repo_ids)
    /\ \E ok \in BOOLEAN :
          LET batch == Chunk(loc.repo_ids, loc.i, args.batch_size)
          IN /\ log' = log
                    \o <<Call("trigger_scans", batch, ok)>>
                    \o DelayAfterChunk(args.delay, loc.i, args.batch_size, Len(loc.repo_ids))
             /\ loc' = IF ok
                       THEN [loc EXCEPT !.triggered_count = @ + Len(batch),
                                        !.i = @ + args.batch_size]
                       ELSE [loc EXCEPT !.failed_count = @ + Len(batch),
                                        !.i = @ + args.batch_size]
             /\ pc' = IF LoopGoesOn(ok, loc.i, args.batch_size, Len(loc.repo_ids))
                      THEN "trigger_loop" ELSE "trigger_report"
    /\ UNCHANGED <<args, world, exit_code>>

\* print("Done. Successfully triggered: ..., Failed: ...")
TriggerReport ==
    /\ pc = "trigger_report"
    /\ loc' = [loc EXCEPT !.printed = <<loc.triggered_count, loc.failed_count>>]
    /\ pc' = "done"
    /\ exit_code' = ExitStatus(loc.failed_count)
    /\ UNCHANGED <<args, world, log>>

\* if args.delay > 0: time.sleep(args.delay), at the end of trigger_batch
DelayAfterFlush(delay) ==
    IF delay > 0 THEN <<Sleep("delay")>> ELSE <<>>

\* trigger_batch(): the locals after it and the calls it issues; ok tells whether
\* the trigger call returns.
trigger_batch(l, delay, ok) ==
    IF l.pending_batch = <<>> THEN [locals |-> l, calls |-> <<>>]
    ELSE [locals |->
             IF ok
             THEN [l EXCEPT !.batch_num = @ + 1,
                            !.triggered_count = @ + Len(l.pending_batch),
                            !.pending_batch = <<>>]
             ELSE [l EXCEPT !.batch_num = @ + 1,
                            !.failed_count = @ + Len(l.pending_batch),
                            !.pending_batch = <<>>],
          calls |-> <<Call("trigger_scans", l.pending_batch, ok)>> \o DelayAfterFlush(delay)]

\* The flush test with > for >=.
BatchIsOverfull(pending_batch, batch_size) == Len(pending_batch) > batch_size

\* if len(pending_batch) >= args.batch_size
BatchIsFull(pending_batch, batch_size) == Len(pending_batch) >= batch_size

\* A check that raised drops the repo (fail-closed).
PendingDropsOnError(pending_batch, repo, check) ==
    IF check = "false" THEN Append(pending_batch, repo.id) ELSE pending_batch

\* A buffer that takes every repository, scanned or not.
PendingKeepsScanned(pending_batch, repo, check) == Append(pending_batch, repo.id)

\* The pending buffer after the full-scan check of repo: has_full_scan answered
\* "true" or "false", or raised ("error").
PendingAfterCheck(pending_batch, repo, check) ==
    IF check = "true" THEN pending_batch ELSE Append(pending_batch, repo.id)

\* The check delay without the test for the last repository.
DelayAfterEveryCheck(check_delay, i, n) ==
    IF check_delay > 0 THEN <<Sleep("check_delay")>> ELSE <<>>

\* if args.check_delay > 0 and i < len(repos) - 1: time.sleep(args.check_delay)
DelayAfterCheck(check_delay, i, n) ==
    IF check_delay > 0 /\ i < n - 1 THEN <<Sleep("check_delay")>> ELSE <<>>

\* One iteration of the streaming loop: check one repo, flush a full batch.
TriggerCheckRepo ==
    /\ pc = "trigger_stream"
    /\ loc.i < Len(loc.repos)
    /\ \E check \in {"true", "false", "error"}, ok \in BOOLEAN :
          LET repo == loc.repos[loc.i + 1]
              l1 == [loc EXCEPT !.checked_count = loc.i + 1,
                                !.skipped_count = IF check = "true" THEN @ + 1 ELSE @,
                                !.pending_batch = PendingAfterCheck(@, repo, check)]
              full == BatchIsFull(l1.pending_batch, args.batch_size)
              flushed == IF full THEN trigger_batch(l1, args.delay, ok)
                         ELSE [locals |-> l1, calls |-> <<>>]
          IN /\ (flushed.calls = <<>> => ok)
             /\ log' = log
                    \o <<CallRes("has_full_scan", <<repo.id>>, check # "error", check)>>
                    \o flushed.calls
                    \o DelayAfterCheck(args.check_delay, loc.i, Len(loc.repos))
             /\ loc' = [flushed.locals EXCEPT !.i = @ + 1]
             /\ pc' = IF LoopGoesOn(ok, loc.i, 1, Len(loc.repos))
                      THEN "trigger_stream" ELSE "trigger_final"
    /\ UNCHANGED <<args, world, exit_code>>

\* After the loop: trigger_batch() for the remainder, then the summary.
TriggerFinalFlush ==
    /\ pc = "trigger_final"
    /\ \E ok \in BOOLEAN :
          LET flushed == trigger_batch(loc, args.delay, ok)
          IN /\ (flushed.calls = <<>> => ok)
             /\ log' = log \o flushed.calls
             /\ loc' = [flushed.locals EXCEPT
                           !.printed = <<flushed.locals.checked_count, flushed.locals.triggered_count,
                                         flushed.locals.skipped_count, flushed.locals.failed_count>>]
    /\ pc' = "done"
    /\ exit_code' = ExitStatus(loc'.failed_count)
    /\ UNCHANGED <<args, world>>

\* -------------------------------------- the item loops, delete-configs

\* if args.delay > 0 and i < len(matching_configs) - 1: time.sleep(args.delay)
DelayAfterItem(delay, i, n) ==
    IF delay > 0 /\ i < n - 1 THEN <<Sleep("delay")>> ELSE <<>>

\* The narrowing to --orgs that lets every config pass.
NamedOrNot(config, orgs) == TRUE

\* [config for config in matching_configs if config.namespace.lower() in org_names_lower]
NamedByOrgs(config, orgs) == Lower(config.namespace) \in {Lower(o) : o \in Range(orgs)}

\* The configs matching the GHES URL, narrowed to --orgs when given
\* (update-configs, check-configs).
ConfigsOnGhes(configs, ghes_url) ==
    SelectSeqIdx(configs,
        [k \in 1..Len(configs) |-> MatchesGhes(configs[k], NormalizeUrl(ghes_url))])

NarrowedToOrgs(configs, orgs) ==
    IF TruthyList(orgs)
    THEN SelectSeqIdx(configs, [k \in 1..Len(configs) |-> NamedByOrgs(configs[k], orgs)])
    ELSE configs

MatchingConfigs(a, w) == NarrowedToOrgs(ConfigsOnGhes(w.configs, a.ghes_url), a.orgs)

\* The listing every config command starts with: the deployment is fetched on
\* first use, then the configs; fails names the fetch that raises, if any.
ListConfigsCalls(fails) ==
    <<Call("get_deployment", <<>>, fails # "get_deployment")>>
    \o (IF fails = "get_deployment" THEN <<>>
        ELSE <<Call("list_scm_configs", <<>>, fails # "list_scm_configs")>>)

ListConfigsFailures == {"none", "get_deployment", "list_scm_configs"}

\* cmd_scm_delete_configs up to the start of the delete loop.
DeletePrepare ==
    /\ pc = "delete-configs"
    /\ \E fails \in ListConfigsFailures :
          LET matching_configs == IF TruthyList(args.orgs) THEN MatchingConfigs(args, world)
                                  ELSE <<>>
              end == IF fails # "none" THEN "crash"
                     ELSE IF ~TruthyList(args.orgs) THEN "exit1"
                     ELSE IF matching_configs = <<>> \/ DryRunReturns(args) THEN "return"
                     ELSE "loop"
          IN /\ log' = log \o ListConfigsCalls(fails)
             /\ loc' = IF end \in {"return", "loop"}
                       THEN [loc EXCEPT !.matching_configs = matching_configs]
                       ELSE loc
             /\ pc' = CASE end = "crash" -> "crashed"
                        [] end = "exit1" -> "exit"
                        [] end = "return" -> "done"
                        [] OTHER -> "delete_loop"
             /\ exit_code' = CASE end = "crash" -> "1"
                               [] end = "exit1" -> "1"
                               [] end = "return" -> "0"
                               [] OTHER -> exit_code
    /\ UNCHANGED <<args, world>>

\* One iteration of the delete loop.
DeleteOne ==
    /\ pc = "delete_loop"
    /\ loc.i < Len(loc.matching_configs)
    /\ \E ok \in BOOLEAN :
          LET config == loc.matching_configs[loc.i + 1]
          IN /\ log' = log
                    \o <<Call("delete_scm_config", <<config.id>>, ok)>>
                    \o DelayAfterItem(args.delay, loc.i, Len(loc.matching_configs))
             /\ loc' = IF ok
                       THEN [loc EXCEPT !.deleted = @ + 1, !.i = @ + 1]
                       ELSE [loc EXCEPT !.failed = @ + 1, !.i = @ + 1]
             /\ pc' = IF LoopGoesOn(ok, loc.i, 1, Len(loc.matching_configs))
                      THEN "delete_loop" ELSE "delete_report"
    /\ UNCHANGED <<args, world, exit_code>>

\* print("Done. Deleted: ..., Failed: ...")
DeleteReport ==
    /\ pc = "delete_report"
    /\ loc' = [loc EXCEPT !.printed = <<loc.deleted, loc.failed>>]
    /\ pc' = "done"
    /\ exit_code' = ExitStatus(loc.failed)
    /\ UNCHANGED <<args, world, log>>

\* --------------------------------------------------------- create-config

\* cmd_scm_create_config: dry run, or one create call and its health check.  The
\* deployment is fetched by the first client call.
CreateConfig ==
    /\ pc = "create-config"
    /\ \E outcome \in {"deployment_error", "create_error", "check_error", "checked"} :
          /\ DryRunReturns(args) => outcome = "checked"
          /\ log' = IF DryRunReturns(args) THEN log
                    ELSE log
                         \o <<Call("get_deployment", <<>>, outcome # "deployment_error")>>
                         \o (IF outcome = "deployment_error" THEN <<>>
                             ELSE <<Call("create_scm_config", <<args.ghes_org>>, outcome # "create_error")>>)
                         \o (IF outcome \in {"deployment_error", "create_error"} THEN <<>>
                             ELSE <<Call("check_scm_config", <<1>>, outcome # "check_error")>>)
          /\ pc' = IF ~DryRunReturns(args) /\ outcome \in {"deployment_error", "create_error"}
                   THEN "exit" ELSE "done"
          /\ exit_code' = IF ~DryRunReturns(args) /\ outcome \in {"deployment_error", "create_error"}
                          THEN "1" ELSE "0"
    /\ UNCHANGED <<args, world, loc>>

\* ------------------------------------------------ create-missing-configs

Whitespace == {" ", "\n"}

RECURSIVE LStrip(_)
LStrip(s) == IF s # <<>> /\ Head(s) \in Whitespace THEN LStrip(Tail(s)) ELSE s

RECURSIVE RStrip(_)
RStrip(s) ==
    IF s # <<>> /\ s[Len(s)] \in Whitespace THEN RStrip(SubSeq(s, 1, Len(s) - 1)) ELSE s

\* str.strip()
Strip(s) == LStrip(RStrip(s))

\* line.strip() and not line.strip().startswith("#")
IsOrgLine(stripped) == stripped # <<>> /\ Head(stripped) # "#"

\* [line.strip() for line in args.orgs_file if line.strip() and not line.strip().startswith("#")]
OrgNamesInFile(lines) ==
    SelectSeqIdx([k \in 1..Len(lines) |-> Strip(lines[k])],
                 [k \in 1..Len(lines) |-> IsOrgLine(Strip(lines[k]))])

\* specified_org_names: --orgs, else the names in --orgs-file (an open file is
\* truthy whatever it holds), else None.
SpecifiedOrgNames(a) ==
    IF TruthyList(a.orgs) THEN a.orgs
    ELSE IF a.orgs_file # NoList THEN OrgNamesInFile(a.orgs_file)
    ELSE NoList

\* ghes_org_map = {org.login.lower(): org for org in ghes_orgs}; .get(key): the
\* position of the last org with that key, 0 for None.
RECURSIVE OrgMapGet(_, _, _)
OrgMapGet(ghes_orgs, key, k) ==
    IF k = 0 THEN 0
    ELSE IF Lower(ghes_orgs[k].login) = key THEN k
    ELSE OrgMapGet(ghes_orgs, key, k - 1)

\* The named orgs taken as given, found on GHES or not.
SpecifiedOrgsAsNamed(ghes_orgs, names, k) ==
    [n \in 1..Len(names) |-> Organization(0, names[n])]

\* The loop over specified_org_names: the orgs found on GHES, in the order named.
RECURSIVE SpecifiedOrgs(_, _, _)
SpecifiedOrgs(ghes_orgs, names, k) ==
    IF k > Len(names) THEN <<>>
    ELSE (IF OrgMapGet(ghes_orgs, Lower(names[k]), Len(ghes_orgs)) = 0 THEN <<>>
          ELSE <<ghes_orgs[OrgMapGet(ghes_orgs, Lower(names[k]), Len(ghes_orgs))]>>)
         \o SpecifiedOrgs(ghes_orgs, names, k + 1)

\* [org for org in ghes_orgs if org.login.lower() not in configured_orgs]
MissingOrgs(ghes_orgs, configured_orgs) ==
    SelectSeqIdx(ghes_orgs,
        [k \in 1..Len(ghes_orgs) |-> Lower(ghes_orgs[k].login) \notin configured_orgs])

ConfiguredOrgs(all_configs, ghes_url) ==
    configured_orgs_of(all_configs, ghes_configs_of(all_configs, ghes_url))

\* orgs_to_create
OrgsToCreate(ghes_orgs, all_configs, ghes_url, specified_org_names) ==
    IF TruthyList(specified_org_names)
    THEN SpecifiedOrgs(ghes_orgs, specified_org_names, 1)
    ELSE MissingOrgs(ghes_orgs, ConfiguredOrgs(all_configs, ghes_url))

\* How the handler goes on once orgs_to_create is known.
AfterTargets(a, fails, targets) ==
    IF fails # "none" THEN "crash"
    ELSE IF targets = <<>> \/ DryRunReturns(a) THEN "return"
    ELSE "loop"

\* cmd_scm_create_missing_configs up to the start of the create loop.
CreateMissingPrepare ==
    /\ pc = "create-missing-configs"
    /\ \E fails \in {"list_organizations"} \cup ListConfigsFailures :
          /\ log' = log
                    \o <<Call("list_organizations", <<>>, fails # "list_organizations")>>
                    \o (IF fails = "list_organizations" THEN <<>> ELSE ListConfigsCalls(fails))
          /\ loc' = IF fails # "none" THEN loc
                    ELSE [loc EXCEPT !.orgs_to_create =
                             OrgsToCreate(world.orgs, world.configs, args.ghes_url,
                                          SpecifiedOrgNames(args))]
          /\ pc' = CASE AfterTargets(args, fails, loc'.orgs_to_create) = "crash" -> "crashed"
                     [] AfterTargets(args, fails, loc'.orgs_to_create) = "return" -> "done"
                     [] OTHER -> "create_loop"
          /\ exit_code' = CASE AfterTargets(args, fails, loc'.orgs_to_create) = "crash" -> "1"
                            [] AfterTargets(args, fails, loc'.orgs_to_create) = "return" -> "0"
                            [] OTHER -> exit_code
    /\ UNCHANGED <<args, world>>

\* One iteration of the create loop: the create call, then the health check of
\* the new config (connected, not connected, or the check raised).
CreateOne ==
    /\ pc = "create_loop"
    /\ loc.i < Len(loc.orgs_to_create)
    /\ \E outcome \in {"create_error", "connected", "not_connected", "check_error"} :
          /\ log' = log
                    \o <<CallRes("create_scm_config", <<loc.orgs_to_create[loc.i + 1].login>>,
                                 outcome # "create_error",
                                 IF args.scm_id # 0 THEN "scm_config_id" ELSE "access_token")>>
                    \o (IF outcome = "create_error" THEN <<>>
                        ELSE <<CallRes("check_scm_config", <<loc.i + 1>>,
                                       outcome # "check_error", outcome)>>)
                    \o DelayAfterItem(args.delay, loc.i, Len(loc.orgs_to_create))
          /\ loc' = [loc EXCEPT
                        !.created = IF outcome = "create_error" THEN @ ELSE @ + 1,
                        !.unhealthy = IF outcome = "not_connected" THEN @ + 1 ELSE @,
                        !.failed = IF outcome = "create_error" THEN @ + 1 ELSE @,
                        !.i = @ + 1]
          /\ pc' = IF LoopGoesOn(outcome # "create_error", loc.i, 1, Len(loc.orgs_to_create))
                   THEN "create_loop" ELSE "create_report"
    /\ UNCHANGED <<args, world, exit_code>>

\* print("Done. Created: ... (... not connected), Failed: ...")
CreateReport ==
    /\ pc = "create_report"
    /\ loc' = [loc EXCEPT !.printed = <<loc.created, loc.unhealthy, loc.failed>>]
    /\ pc' = "done"
    /\ exit_code' = ExitStatus(loc.failed)
    /\ UNCHANGED <<args, world, log>>

\* -------------------------------------------------------- update-configs

\* The update payload with the flags that were not given left in.
updates_with_none(a) == {"subscribe", "auto_scan", "use_network_broker", "diff_enabled"}

\* updates_to_apply = {k: v for k, v in updates.items() if v is not None}
updates_to_apply(a) ==
    {k \in {"subscribe", "auto_scan", "use_network_broker", "diff_enabled"} : a[k] # "None"}

\* How update-configs goes on once matching_configs is known.
AfterMatchingUpdate(a, fails, matching_configs) ==
    IF fails # "none" THEN "crash"
    ELSE IF matching_configs = <<>> \/ updates_to_apply(a) = {} \/ DryRunReturns(a) THEN "return"
    ELSE "loop"

\* cmd_scm_update_configs up to the start of the update loop.
UpdatePrepare ==
    /\ pc = "update-configs"
    /\ \E fails \in ListConfigsFailures :
          /\ log' = log \o ListConfigsCalls(fails)
          /\ loc' = IF fails # "none" THEN loc
                    ELSE [loc EXCEPT !.matching_configs = MatchingConfigs(args, world)]
          /\ pc' = CASE AfterMatchingUpdate(args, fails, loc'.matching_configs) = "crash" -> "crashed"
                     [] AfterMatchingUpdate(args, fails, loc'.matching_configs) = "return" -> "done"
                     [] OTHER -> "update_loop"
          /\ exit_code' = CASE AfterMatchingUpdate(args, fails, loc'.matching_configs) = "crash" -> "1"
                            [] AfterMatchingUpdate(args, fails, loc'.matching_configs) = "return" -> "0"
                            [] OTHER -> exit_code
    /\ UNCHANGED <<args, world>>

\* One iteration of the update loop.
UpdateOne ==
    /\ pc = "update_loop"
    /\ loc.i < Len(loc.matching_configs)
    /\ \E ok \in BOOLEAN :
          /\ log' = log
                    \o <<Call("patch_scm_config", <<loc.matching_configs[loc.i + 1].id>>, ok)>>
                    \o DelayAfterItem(args.delay, loc.i, Len(loc.matching_configs))
          /\ loc' = IF ok
                    THEN [loc EXCEPT !.updated = @ + 1, !.i = @ + 1]
                    ELSE [loc EXCEPT !.failed = @ + 1, !.i = @ + 1]
          /\ pc' = IF LoopGoesOn(ok, loc.i, 1, Len(loc.matching_configs))
                   THEN "update_loop" ELSE "update_report"
    /\ UNCHANGED <<args, world, exit_code>>

\* print("Done. Updated: ..., Failed: ...")
UpdateReport ==
    /\ pc = "update_report"
    /\ loc' = [loc EXCEPT !.printed = <<loc.updated, loc.failed>>]
    /\ pc' = "done"
    /\ exit_code' = ExitStatus(loc.failed)
    /\ UNCHANGED <<args, world, log>>

\* --------------------------------------------------------- check-configs

\* The missing scopes in the order of ALL_SCOPES, not of required.
missing_scopes_in_scope_order(token_scopes, required) ==
    SelectSeqIdx(ALL_SCOPES,
        [k \in 1..Len(ALL_SCOPES) |->
            /\ ALL_SCOPES[k] \in Range(required)
            /\ ~ScopeAttrTruthy(token_scopes, ALL_SCOPES[k])])

\* ScmTokenScopes.missing_scopes
missing_scopes(token_scopes, required) ==
    SelectSeqIdx(required,
        [k \in 1..Len(required) |-> ~ScopeAttrTruthy(token_scopes, required[k])])

\* ScmCheckResult as the check answers.
ScmCheckResult(ok, token_scopes) == [status |-> ScmStatus(ok), token_scopes |-> token_scopes]

CheckResults ==
    {ScmCheckResult(ok, t) :
        ok \in BOOLEAN, t \in {NoneObj, ScmTokenScopes({}), ScmTokenScopes({"read_contents"})}}

\* The health test of the loop body without the scopes.
CheckedHealthyByStatus(result, required_scopes) == result.status.ok

\* is_healthy of the loop body of check-configs
CheckedHealthy(result, required_scopes) ==
    /\ result.status.ok
    /\ ~(/\ Truthy(required_scopes)
         /\ result.token_scopes # NoneObj
         /\ missing_scopes(result.token_scopes, required_scopes) # <<>>)

\* cmd_scm_check_configs up to the start of the check loop.
CheckPrepare ==
    /\ pc = "check-configs"
    /\ \E fails \in ListConfigsFailures :
          /\ log' = log \o ListConfigsCalls(fails)
          /\ loc' = IF fails # "none" THEN loc
                    ELSE [loc EXCEPT !.matching_configs = MatchingConfigs(args, world)]
          /\ pc' = IF fails # "none" THEN "crashed"
                   ELSE IF loc'.matching_configs = <<>> THEN "done"
                   ELSE "check_loop"
          /\ exit_code' = IF fails # "none" THEN "1"
                          ELSE IF loc'.matching_configs = <<>> THEN "0"
                          ELSE exit_code
    /\ UNCHANGED <<args, world>>

\* One iteration of the check loop: the check raised, or answered with a result.
CheckOne ==
    /\ pc = "check_loop"
    /\ loc.i < Len(loc.matching_configs)
    /\ \E ok \in BOOLEAN, result \in CheckResults :
          /\ (~ok => result = ScmCheckResult(FALSE, NoneObj))
          /\ log' = log
                    \o <<CallRes("check_scm_config", <<loc.matching_configs[loc.i + 1].id>>, ok,
                                 IF ok /\ CheckedHealthy(result, args.required_scopes)
                                 THEN "healthy" ELSE "unhealthy")>>
                    \o DelayAfterItem(args.delay, loc.i, Len(loc.matching_configs))
          /\ loc' = IF ok /\ CheckedHealthy(result, args.required_scopes)
                    THEN [loc EXCEPT !.healthy = @ + 1, !.i = @ + 1,
                                     !.results = Append(@, result)]
                    ELSE [loc EXCEPT !.unhealthy = @ + 1, !.i = @ + 1,
                                     !.results = Append(@, result)]
          /\ pc' = IF LoopGoesOn(ok, loc.i, 1, Len(loc.matching_configs))
                   THEN "check_loop" ELSE "check_report"
    /\ UNCHANGED <<args, world, exit_code>>

\* print("Done. Healthy: ..., Unhealthy: ...")
CheckReport ==
    /\ pc = "check_report"
    /\ loc' = [loc EXCEPT !.printed = <<loc.healthy, loc.unhealthy>>]
    /\ pc' = "done"
    /\ exit_code' = ExitStatus(loc.unhealthy)
    /\ UNCHANGED <<args, world, log>>

\* ------------------------------------------------------------ the runs

OnboardArgs ==
    {[NoArgs EXCEPT !.command = "onboard-repos", !.ghes_url = g, !.dry_run = d,
                    !.delay = dl, !.batch_size = b, !.check_scm = cs] :
        g \in {None, UrlGSlashes}, d \in BOOLEAN, dl \in Delays, b \in BatchSizes,
        cs \in BOOLEAN}

TriggerArgs ==
    {[NoArgs EXCEPT !.command = "trigger-scans", !.ghes_url = g, !.dry_run = d,
                    !.delay = dl, !.check_delay = cd, !.batch_size = b,
                    !.check_scm = cs, !.skip_scan_check = sk] :
        g \in {None, UrlGSlashes}, d \in BOOLEAN, dl \in Delays, cd \in Delays,
        b \in BatchSizes, cs \in BOOLEAN, sk \in BOOLEAN}

\* The organizations GHES lists in the batch runs.
BatchOrgInventories ==
    {<<>>,
     <<Organization(1, <<"O">>)>>,
     <<Organization(1, <<"p">>), Organization(2, <<"O">>)>>}

\* --orgs-file: a comment, a padded name, a blank line; or comments only.
OrgsFiles ==
    {<<<<"#", "o", "\n">>, <<" ", "p", " ", "\n">>, <<"\n">>>>,
     <<<<"#", "o", "\n">>>>}

\* --orgs and --orgs-file are mutually exclusive.
CreateTargets ==
    {[orgs |-> NoList, orgs_file |-> NoList],
     [orgs |-> <<<<"q">>, <<"o">>>>, orgs_file |-> NoList]}
    \cup {[orgs |-> NoList, orgs_file |-> f] : f \in OrgsFiles}

CreateConfigArgs ==
    {[NoArgs EXCEPT !.command = "create-config", !.ghes_url = UrlG, !.ghes_org = o,
                    !.dry_run = d] :
        o \in {None, <<"o">>}, d \in BOOLEAN}

CreateMissingArgs ==
    {[NoArgs EXCEPT !.command = "create-missing-configs", !.ghes_url = UrlGSlashes,
                    !.orgs = t.orgs, !.orgs_file = t.orgs_file, !.scm_id = id,
                    !.dry_run = d, !.delay = dl] :
        t \in CreateTargets, id \in {0, 7}, d \in BOOLEAN, dl \in Delays}

UpdateArgs ==
    {[NoArgs EXCEPT !.command = "update-configs", !.ghes_url = UrlGSlashes, !.orgs = o,
                    !.subscribe = sub, !.dry_run = d, !.delay = dl] :
        o \in {NoList, <<<<"o">>>>, <<<<"P">>, <<"o">>>>}, sub \in {"None", "False"},
        d \in BOOLEAN, dl \in Delays}

CheckArgs ==
    {[NoArgs EXCEPT !.command = "check-configs", !.ghes_url = UrlGSlashes, !.orgs = o,
                    !.required_scopes = rs, !.delay = dl] :
        o \in {NoList, <<<<"P">>, <<"o">>>>}, rs \in {None, <<"read_contents">>},
        dl \in Delays}

OrgsOptions == {NoList, <<>>, <<<<"o">>>>, <<<<"P">>, <<"o">>>>}

DeleteArgs ==
    {[NoArgs EXCEPT !.command = "delete-configs", !.ghes_url = g, !.orgs = o,
                    !.dry_run = d, !.delay = dl] :
        g \in GhesUrls, o \in OrgsOptions, d \in BOOLEAN, dl \in Delays}

\* The repo commands read the configs only with --check-scm.
RepoWorlds(a) ==
    {[orgs |-> <<>>, configs |-> c, repos |-> r] :
        c \in IF a.check_scm THEN RepoCmdConfigInventories ELSE {<<>>},
        r \in RepoInventories}

ConfigWorlds ==
    {[orgs |-> <<>>, configs |-> c, repos |-> <<>>] : c \in BatchConfigInventories}

OrgWorlds ==
    {[orgs |-> o, configs |-> c, repos |-> <<>>] :
        o \in BatchOrgInventories, c \in BatchConfigInventories}

NoWorld == [orgs |-> <<>>, configs |-> <<>>, repos |-> <<>>]

\* Environments with a token variable unset or empty.
PartialEnvs ==
    {[SEMGREP_APP_TOKEN |-> s, GHES_TOKEN |-> g] :
        s \in {None, <<>>, TokenSet}, g \in {None, <<>>, TokenSet}} \ {FullEnv}

\* One invocation of each command, in each partial environment.
PartialEnvArgs ==
    {[a EXCEPT !.env = e] :
        a \in {[NoArgs EXCEPT !.command = "onboard-repos"],
               [NoArgs EXCEPT !.command = "trigger-scans"],
               [NoArgs EXCEPT !.command = "delete-configs", !.ghes_url = UrlG,
                               !.orgs = <<<<"o">>>>],
               [NoArgs EXCEPT !.command = "update-configs", !.ghes_url = UrlG,
                               !.subscribe = "False"],
               [NoArgs EXCEPT !.command = "check-configs", !.ghes_url = UrlG],
               [NoArgs EXCEPT !.command = "create-missing-configs",
                               !.ghes_url = UrlG],
               [NoArgs EXCEPT !.command = "create-config", !.ghes_url = UrlG,
                               !.ghes_org = <<"o">>],
               [NoArgs EXCEPT !.command = "create-config", !.ghes_url = UrlG,
                               !.ghes_org = <<"o">>, !.dry_run = TRUE]},
        e \in PartialEnvs}

Init ==
    /\ pc = "main"
    /\ log = <<>>
    /\ loc = NoLoc
    /\ exit_code = "running"
    /\ \/ args \in OnboardArgs /\ world \in RepoWorlds(args)
       \/ args \in TriggerArgs /\ world \in RepoWorlds(args)
       \/ args \in DeleteArgs /\ world \in ConfigWorlds
       \/ args \in UpdateArgs /\ world \in ConfigWorlds
       \/ args \in CheckArgs /\ world \in ConfigWorlds
       \/ args \in CreateMissingArgs /\ world \in OrgWorlds
       \/ args \in CreateConfigArgs /\ world = NoWorld
       \/ args \in PartialEnvArgs /\ world = NoWorld

Next ==
    \/ Main
    \/ OnboardPrepare \/ OnboardBatch \/ OnboardReport
    \/ TriggerPrepare \/ TriggerBatch \/ TriggerReport
    \/ TriggerCheckRepo \/ TriggerFinalFlush
    \/ DeletePrepare \/ DeleteOne \/ DeleteReport
    \/ CreateConfig
    \/ CreateMissingPrepare \/ CreateOne \/ CreateReport
    \/ UpdatePrepare \/ UpdateOne \/ UpdateReport
    \/ CheckPrepare \/ CheckOne \/ CheckReport

Spec == Init /\ [][Next]_vars

\* The process runs its one thread on: a handler whose next statement can run
\* runs it, every call it makes returning with a result or an error.
FairSpec == Init /\ [][Next]_vars /\ WF_vars(Next)

\* --------------------------------------------------- the config commands

\* The runs of delete-configs, update-configs, check-configs and
\* create-missing-configs.
InitConfigs ==
    /\ pc = "main"
    /\ log = <<>>
    /\ loc = NoLoc
    /\ exit_code = "running"
    /\ \/ args \in DeleteArgs /\ world \in ConfigWorlds
       \/ args \in UpdateArgs /\ world \in ConfigWorlds
       \/ args \in CheckArgs /\ world \in ConfigWorlds
       \/ args \in CreateMissingArgs /\ world \in OrgWorlds

NextConfigs ==
    \/ Main
    \/ DeletePrepare \/ DeleteOne \/ DeleteReport
    \/ CreateMissingPrepare \/ CreateOne \/ CreateReport
    \/ UpdatePrepare \/ UpdateOne \/ UpdateReport
    \/ CheckPrepare \/ CheckOne \/ CheckReport

SpecConfigs == InitConfigs /\ [][NextConfigs]_vars

\* ------------------------------- trigger-scans, check-and-trigger policy

\* The runs of trigger-scans without --skip-scan-check.
InitStreaming ==
    /\ pc = "main"
    /\ log = <<>>
    /\ loc = NoLoc
    /\ exit_code = "running"
    /\ args \in {a \in TriggerArgs : ~a.skip_scan_check}
    /\ world \in RepoWorlds(args)

NextStreaming ==
    \/ Main
    \/ TriggerPrepare
    \/ TriggerCheckRepo
    \/ TriggerFinalFlush

SpecStreaming == InitStreaming /\ [][NextStreaming]_vars

\* ------------------------------------------- the filter on its inputs

MaxFilterRepos == 2
MaxFilterConfigs == 2

\* Repo.url as _parse_repo reads it: absent, a repository URL of the instance g
\* (also in upper case), the bare instance URL, a repository of another host, a
\* URL urlparse rejects.
FilterUrls ==
    {None,
     <<"s", ":", "/", "/", "g", "/", "o">>,
     <<"S", ":", "/", "/", "G", "/", "O", "/", "r">>,
     <<"s", ":", "/", "/", "g">>,
     <<"s", ":", "/", "/", "h", "/", "o">>,
     <<"s", ":", "/", "/", "[", "g", "/", "o">>}

\* status and tokenScopes as _parse_scm_config reads them.
FilterHealths ==
    {[status |-> NoneObj, scopes |-> NoneObj],
     [status |-> ScmStatus(FALSE), scopes |-> ScmTokenScopes({"read_contents"})],
     [status |-> ScmStatus(TRUE), scopes |-> NoneObj],
     [status |-> ScmStatus(TRUE), scopes |-> ScmTokenScopes({})]}

\* Configs of the namespace O of the instance g, one of the empty namespace,
\* one without base URL.
FilterConfigs ==
    {[namespace |-> <<"O">>, base_url |-> UrlGUpper, status |-> h.status,
      scopes |-> h.scopes] : h \in FilterHealths}
    \cup {[namespace |-> <<>>, base_url |-> UrlGUpper, status |-> ScmStatus(TRUE),
           scopes |-> NoneObj],
          [namespace |-> <<"o">>, base_url |-> None, status |-> ScmStatus(TRUE),
           scopes |-> NoneObj]}

FilterWorlds ==
    {[orgs |-> <<>>,
      configs |-> [k \in 1..Len(c) |->
                      ScmConfig(k, c[k].namespace, c[k].base_url, c[k].status, c[k].scopes)],
      repos |-> [k \in 1..Len(u) |-> Repo(k, u[k], FALSE)]] :
        c \in SeqsUpTo(FilterConfigs, MaxFilterConfigs),
        u \in SeqsUpTo(FilterUrls, MaxFilterRepos)}

InitFilter ==
    /\ pc = "filter_repos_by_healthy_scm"
    /\ log = <<>>
    /\ loc = NoLoc
    /\ exit_code = "running"
    /\ args \in {[NoArgs EXCEPT !.required_scopes = rs] :
                    rs \in {None, <<"read_contents">>}}
    /\ world \in FilterWorlds

\* repos, skipped = filter_repos_by_healthy_scm(repos, scm_configs, required_scopes)
Filtered(lists) == [loc EXCEPT !.repos = lists.healthy, !.skipped = lists.skipped]

FilterReposByHealthyScm ==
    /\ pc = "filter_repos_by_healthy_scm"
    /\ pc' = "filtered"
    /\ \E lists \in {filter_repos_by_healthy_scm(
                          world.repos, world.configs, args.required_scopes)} :
          loc' = Filtered(lists)
    /\ UNCHANGED <<args, world, log, exit_code>>

NextFilter == FilterReposByHealthyScm

SpecFilter == InitFilter /\ [][NextFilter]_vars

\* ---------------------------------------------------- input validation

\* value.split(","): a str is a sequence of tokens here, a scope name being one
\* token; no two tokens of the model concatenate to a scope name.
RECURSIVE SplitComma(_)
SplitComma(value) ==
    IF FindFrom(value, {","}, 1) = 0 THEN <<value>>
    ELSE <<SubSeq(value, 1, FindFrom(value, {","}, 1) - 1)>>
            \o SplitComma(SubSeq(value, FindFrom(value, {","}, 1) + 1, Len(value)))

\* [s.strip() for s in value.split(",") if s.strip()]
StrippedNames(pieces) ==
    SelectSeqIdx([k \in 1..Len(pieces) |-> Strip(pieces[k])],
                 [k \in 1..Len(pieces) |-> Strip(pieces[k]) # <<>>])

\* s in ScmTokenScopes.ALL_SCOPES
IsScopeName(s) == Len(s) = 1 /\ s[1] \in Range(ALL_SCOPES)

\* parse_scopes with the invalid names left out of the result.
DropInvalid(scopes) ==
    [raises |-> FALSE,
     scopes |-> SelectSeqIdx([k \in 1..Len(scopes) |-> scopes[k][1]],
                             [k \in 1..Len(scopes) |-> IsScopeName(scopes[k])])]

\* invalid = [...]; if invalid: raise argparse.ArgumentTypeError; return scopes
RejectInvalid(scopes) ==
    IF \E k \in 1..Len(scopes) : ~IsScopeName(scopes[k])
    THEN [raises |-> TRUE, scopes |-> <<>>]
    ELSE [raises |-> FALSE, scopes |-> [k \in 1..Len(scopes) |-> scopes[k][1]]]

\* parse_scopes that drops the invalid names in place of raising.
parse_scopes_dropping(value) == DropInvalid(StrippedNames(SplitComma(value)))

\* parse_scopes(value): the list of names, or a validation error.
parse_scopes(value) == RejectInvalid(StrippedNames(SplitComma(value)))

\* ------------------------------------------- the functions on their inputs

MaxRequired == 2
MaxUrlTail == 5
MaxScopeInput == 4

\* A status and token scopes as _parse_scm_config reads them, and the
\* required_scopes of a command line: absent, or names parse_scopes accepted.
MeetsInputs ==
    {[config |-> ScmConfig(1, <<"o">>, UrlG, st, ts), required |-> rs] :
        st \in {NoneObj, ScmStatus(FALSE), ScmStatus(TRUE)},
        ts \in {NoneObj} \cup {ScmTokenScopes(g) : g \in SUBSET {"read_contents", "read_members"}},
        rs \in {None} \cup SeqsUpTo({"read_contents", "read_members"}, MaxRequired)}

\* Repository URLs: nothing, a scheme, a scheme and the start of a netloc, or
\* the start of a netloc urlparse rejects, followed by any short text.
UrlInputs ==
    {h \o t :
        h \in {<<>>, <<"S", ":">>, <<"s", ":", "/", "/">>, <<"S", ":", "/", "/">>,
               <<"s", ":", "/", "/", "[">>},
        t \in SeqsUpTo({"/", "o", "O", "?"}, MaxUrlTail)}

\* The value of --required-scopes: scope names, another name, commas, blanks.
ScopeInputs ==
    SeqsUpTo({"read_contents", "read_members", "x", ",", " "}, MaxScopeInput)

\* Token scopes as the API reports them and a list of validated scope names.
ScopeCheckInputs ==
    {[token_scopes |-> ScmTokenScopes(g), required |-> rs] :
        g \in SUBSET {"read_contents", "read_members", "write_contents"},
        rs \in SeqsUpTo({"read_contents", "read_members", "write_contents"},
                        MaxRequired + 1)}

\* Token scopes and a list of names as any caller of the client may pass it:
\* a scope name, names of other attributes of the object, a name of no attribute.
AnyNameInputs ==
    {[token_scopes |-> ScmTokenScopes(g), required |-> rs] :
        g \in {{}, {"read_contents"}, {ALL_SCOPES[k] : k \in 1..6}},
        rs \in SeqsUpTo({"read_contents", "has_scopes", "ALL_SCOPES",
                         "has_required_scopes", "x"}, MaxRequired)}

InitPure ==
    /\ args = NoArgs
    /\ log = <<>>
    /\ loc = NoLoc
    /\ exit_code = "running"
    /\ \/ pc = "meets_requirements" /\ world \in MeetsInputs
       \/ pc = "get_namespace_from_url" /\ world \in UrlInputs
       \/ pc = "parse_scopes" /\ world \in ScopeInputs
       \/ pc = "missing_scopes" /\ world \in ScopeCheckInputs
       \/ pc = "has_scopes" /\ world \in AnyNameInputs

\* config.meets_requirements(required_scopes), and the test of the loop body of
\* check-configs on a check result with the same status and scopes.
MeetsRequirements ==
    /\ pc = "meets_requirements"
    /\ pc' = "met"
    /\ loc' = [meets |-> meets_requirements(world.config, world.required),
               checked_healthy |->
                   /\ world.config.status # NoneObj
                   /\ CheckedHealthy(world.config, world.required)]
    /\ UNCHANGED <<args, world, log, exit_code>>

\* parsed = get_namespace_from_url(url)
GetNamespaceFromUrl ==
    /\ pc = "get_namespace_from_url"
    /\ pc' = "parsed"
    /\ loc' = get_namespace_from_url(world)
    /\ UNCHANGED <<args, world, log, exit_code>>

\* argparse applies type=parse_scopes to the value of --required-scopes.
ParseScopes ==
    /\ pc = "parse_scopes"
    /\ pc' = "scopes_parsed"
    /\ loc' = parse_scopes(world)
    /\ UNCHANGED <<args, world, log, exit_code>>

\* token_scopes.has_scopes(required) and token_scopes.missing_scopes(required)
CheckScopes ==
    /\ pc = "missing_scopes"
    /\ pc' = "scopes_checked"
    /\ loc' = [has |-> has_scopes(world.token_scopes, world.required),
               missing |-> missing_scopes(world.token_scopes, world.required)]
    /\ UNCHANGED <<args, world, log, exit_code>>

\* has_scopes and missing_scopes called with a list that was not validated.
HasScopes ==
    /\ pc = "has_scopes"
    /\ pc' = "has_scopes_checked"
    /\ loc' = [has |-> has_scopes(world.token_scopes, world.required),
               missing |-> missing_scopes(world.token_scopes, world.required)]
    /\ UNCHANGED <<args, world, log, exit_code>>

NextPure ==
    \/ MeetsRequirements
    \/ GetNamespaceFromUrl
    \/ ParseScopes
    \/ CheckScopes
    \/ HasScopes

SpecPure == InitPure /\ [][NextPure]_vars

\* ----------------------------------------------------------- the clients

MaxClientOps == 3
MaxPages == 3
MaxPageItems == 2
MaxGithubOrgs == 201

\* params = {"per_page": 100}
PerPage == 100

\* One page of a cursor-paginated listing as the server answers it: the items
\* (their ids) and the cursor; the cursor that leads to page k + 1 is a str of
\* k characters, the last page has no cursor or an empty one.
ListingOf(sizes, last_cursor) ==
    [k \in 1..Len(sizes) |->
        [items |-> [j \in 1..sizes[k] |-> MaxPageItems * (k - 1) + j],
         cursor |-> IF k < Len(sizes) THEN [j \in 1..k |-> "c"] ELSE last_cursor]]

Listings ==
    {ListingOf(sizes, last) :
        sizes \in UNION {[1..n -> 0..MaxPageItems] : n \in 1..MaxPages},
        last \in {None, <<>>}}

\* The listing of the runs of several operations: pages of 2 and 1 items.
PlainListing == ListingOf(<<2, 1>>, None)

\* The page the server answers to a request with this cursor parameter.
PageAt(pages, cursor) == IF Truthy(cursor) THEN pages[Len(cursor) + 1] ELSE pages[1]

\* The loop of a listing with the cursor of the first page sent again.
RECURSIVE DrainFirstCursor(_, _, _, _, _, _)
DrainFirstCursor(op, dep, pages, cursor, k, fail_at) ==
    IF k = fail_at
    THEN [requests |-> <<Call(op, [deployment_id |-> dep, cursor |-> cursor], FALSE)>>,
          raised |-> TRUE, result |-> <<>>]
    ELSE IF ~Truthy(PageAt(pages, cursor).cursor) \/ k >= Len(pages)
    THEN [requests |-> <<Call(op, [deployment_id |-> dep, cursor |-> cursor], TRUE)>>,
          raised |-> FALSE, result |-> PageAt(pages, cursor).items]
    ELSE [requests |->
              <<Call(op, [deployment_id |-> dep, cursor |-> cursor], TRUE)>>
              \o DrainFirstCursor(op, dep, pages, pages[1].cursor, k + 1, fail_at).requests,
          raised |-> DrainFirstCursor(op, dep, pages, pages[1].cursor, k + 1, fail_at).raised,
          result |->
              IF DrainFirstCursor(op, dep, pages, pages[1].cursor, k + 1, fail_at).raised
              THEN <<>>
              ELSE PageAt(pages, cursor).items
                   \o DrainFirstCursor(op, dep, pages, pages[1].cursor, k + 1, fail_at).result]

\* while True: request the page of cursor; append its items; cursor =
\* data.get("cursor"); if not cursor: break.  The k-th request is answered with
\* an error when k = fail_at, and the function raises.
RECURSIVE Drain(_, _, _, _, _, _)
Drain(op, dep, pages, cursor, k, fail_at) ==
    IF k = fail_at
    THEN [requests |-> <<Call(op, [deployment_id |-> dep, cursor |-> cursor], FALSE)>>,
          raised |-> TRUE, result |-> <<>>]
    ELSE IF ~Truthy(PageAt(pages, cursor).cursor)
    THEN [requests |-> <<Call(op, [deployment_id |-> dep, cursor |-> cursor], TRUE)>>,
          raised |-> FALSE, result |-> PageAt(pages, cursor).items]
    ELSE [requests |->
              <<Call(op, [deployment_id |-> dep, cursor |-> cursor], TRUE)>>
              \o Drain(op, dep, pages, PageAt(pages, cursor).cursor, k + 1, fail_at).requests,
          raised |-> Drain(op, dep, pages, PageAt(pages, cursor).cursor, k + 1, fail_at).raised,
          result |->
              IF Drain(op, dep, pages, PageAt(pages, cursor).cursor, k + 1, fail_at).raised
              THEN <<>>
              ELSE PageAt(pages, cursor).items
                   \o Drain(op, dep, pages, PageAt(pages, cursor).cursor, k + 1, fail_at).result]

\* The number of requests of the deployment endpoint issued so far.
DeploymentRequests(l) ==
    Cardinality({k \in 1..Len(l) : l[k].op = "GET /agent/deployment"})

\* The deployment property without the cache: every access requests it.
DeploymentNotCached(cached, answer_ok, l) ==
    IF answer_ok
    THEN [requests |-> <<Call("GET /agent/deployment", <<>>, TRUE)>>,
          raised |-> FALSE, id |-> DeploymentRequests(l) + 1]
    ELSE [requests |-> <<Call("GET /agent/deployment", <<>>, FALSE)>>,
          raised |-> TRUE, id |-> 0]

\* SemgrepClient.deployment: the cached value (0 is None), or the answer of
\* get_deployment, which is cached when the request succeeds.  The server names
\* the deployment by the number of the request.
DeploymentAccess(cached, answer_ok, l) ==
    IF cached # 0 THEN [requests |-> <<>>, raised |-> FALSE, id |-> cached]
    ELSE IF answer_ok
    THEN [requests |-> <<Call("GET /agent/deployment", <<>>, TRUE)>>,
          raised |-> FALSE, id |-> DeploymentRequests(l) + 1]
    ELSE [requests |-> <<Call("GET /agent/deployment", <<>>, FALSE)>>,
          raised |-> TRUE, id |-> 0]

\* One entry of the body of patch_scm_config: present when the argument is not None.
BodyField(key, arg, value) == IF arg # "None" THEN key :> value ELSE <<>>

\* The body with the fields that are truthy only.
PatchBodyTruthy(subscribe, auto_scan, use_network_broker, diff_enabled) ==
    BodyField("subscribe", IF subscribe = "True" THEN "True" ELSE "None", subscribe)
    @@ BodyField("autoScan", IF auto_scan = "True" THEN "True" ELSE "None", auto_scan)
    @@ BodyField("useNetworkBroker",
                 IF use_network_broker = "True" THEN "True" ELSE "None", use_network_broker)
    @@ BodyField("autoScanSettings", IF diff_enabled = "True" THEN "True" ELSE "None",
                 [diffEnabled |-> diff_enabled])

\* body of patch_scm_config
PatchBody(subscribe, auto_scan, use_network_broker, diff_enabled) ==
    BodyField("subscribe", subscribe, subscribe)
    @@ BodyField("autoScan", auto_scan, auto_scan)
    @@ BodyField("useNetworkBroker", use_network_broker, use_network_broker)
    @@ BodyField("autoScanSettings", diff_enabled, [diffEnabled |-> diff_enabled])

\* The client after an operation: the requests of the deployment access and of
\* the operation are issued, the deployment is cached, the result is returned.
ClientAfter(op, access, outcome) ==
    [deployment |-> access.id,
     remaining |-> loc.remaining - 1,
     calls |-> loc.calls + 1,
     op |-> op,
     raised |-> access.raised \/ outcome.raised,
     result |-> IF access.raised \/ outcome.raised THEN <<>> ELSE outcome.result]

RequestsOf(access, outcome) ==
    access.requests \o (IF access.raised THEN <<>> ELSE outcome.requests)

\* A SemgrepClient is constructed without deployment; the run applies one
\* operation to any listing, or patches with any arguments, or applies several
\* operations.
InitClient ==
    /\ pc = "semgrep_client"
    /\ log = <<>>
    /\ exit_code = "running"
    /\ \/ /\ world \in Listings
          /\ args = NoArgs
          /\ loc = [deployment |-> 0, remaining |-> 1, calls |-> 0, op |-> "",
                    raised |-> FALSE, result |-> <<>>]
       \/ /\ world = PlainListing
          /\ args \in {[NoArgs EXCEPT !.subscribe = s, !.auto_scan = a,
                                      !.use_network_broker = u, !.diff_enabled = d] :
                          s, a, u, d \in {"None", "True", "False"}}
          /\ loc = [deployment |-> 0, remaining |-> 1, calls |-> 0, op |-> "",
                    raised |-> FALSE, result |-> <<>>]
       \/ /\ world = PlainListing
          /\ args = [NoArgs EXCEPT !.subscribe = "False"]
          /\ \E n \in 2..MaxClientOps :
                loc = [deployment |-> 0, remaining |-> n, calls |-> 0, op |-> "",
                       raised |-> FALSE, result |-> <<>>]

\* SemgrepClient.list_scm_configs
ListScmConfigs ==
    /\ pc = "semgrep_client"
    /\ loc.remaining > 0
    /\ \E answer_ok \in BOOLEAN, fail_at \in 0..Len(world) :
          \E access \in {DeploymentAccess(loc.deployment, answer_ok, log)} :
             \E outcome \in {Drain("list_scm_configs", access.id, world, None, 1, fail_at)} :
                /\ log' = log \o RequestsOf(access, outcome)
                /\ loc' = ClientAfter("list_scm_configs", access, outcome)
    /\ UNCHANGED <<pc, args, world, exit_code>>

\* SemgrepClient.search_repos
SearchRepos ==
    /\ pc = "semgrep_client"
    /\ loc.remaining > 0
    /\ \E answer_ok \in BOOLEAN, fail_at \in 0..Len(world) :
          \E access \in {DeploymentAccess(loc.deployment, answer_ok, log)} :
             \E outcome \in {Drain("search_repos", access.id, world, None, 1, fail_at)} :
                /\ log' = log \o RequestsOf(access, outcome)
                /\ loc' = ClientAfter("search_repos", access, outcome)
    /\ UNCHANGED <<pc, args, world, exit_code>>

\* SemgrepClient.list_project_scans
ListProjectScans ==
    /\ pc = "semgrep_client"
    /\ loc.remaining > 0
    /\ \E answer_ok \in BOOLEAN, fail_at \in 0..Len(world) :
          \E access \in {DeploymentAccess(loc.deployment, answer_ok, log)} :
             \E outcome \in {Drain("list_project_scans", access.id, world, None, 1, fail_at)} :
                /\ log' = log \o RequestsOf(access, outcome)
                /\ loc' = ClientAfter("list_project_scans", access, outcome)
    /\ UNCHANGED <<pc, args, world, exit_code>>

\* SemgrepClient.patch_scm_config
PatchScmConfig ==
    /\ pc = "semgrep_client"
    /\ loc.remaining > 0
    /\ \E answer_ok \in BOOLEAN, ok \in BOOLEAN :
          \E access \in {DeploymentAccess(loc.deployment, answer_ok, log)} :
             \E outcome \in
                   {[requests |->
                        <<Call("patch_scm_config",
                               [deployment_id |-> access.id,
                                body |-> PatchBody(args.subscribe, args.auto_scan,
                                                   args.use_network_broker,
                                                   args.diff_enabled)], ok)>>,
                     raised |-> ~ok, result |-> <<>>]} :
                /\ log' = log \o RequestsOf(access, outcome)
                /\ loc' = ClientAfter("patch_scm_config", access, outcome)
    /\ UNCHANGED <<pc, args, world, exit_code>>

\* GET /organizations?per_page=..&since=..: the organizations of the instance
\* with an id above since, in id order, at most per_page of them.
OrgsPage(ids, since, per_page) ==
    SubSeq(SelectSeq(ids, LAMBDA id : id > since), 1,
           IF Cardinality({k \in 1..Len(ids) : ids[k] > since}) < per_page
           THEN Cardinality({k \in 1..Len(ids) : ids[k] > since}) ELSE per_page)

\* params of the request: since is sent when it is truthy (0 stands for None).
OrgsParams(since) == ("per_page" :> PerPage) @@ (IF since # 0 THEN "since" :> since ELSE <<>>)

\* The loop of list_organizations that stops on an empty page only.
RECURSIVE OrganizationsUntilEmpty(_, _, _, _)
OrganizationsUntilEmpty(ids, since, k, fail_at) ==
    IF k = fail_at
    THEN [requests |-> <<Call("list_organizations", OrgsParams(since), FALSE)>>,
          raised |-> TRUE, result |-> <<>>]
    ELSE IF Len(OrgsPage(ids, since, PerPage)) = 0
    THEN [requests |-> <<Call("list_organizations", OrgsParams(since), TRUE)>>,
          raised |-> FALSE, result |-> <<>>]
    ELSE \* one more page
         [requests |->
              <<Call("list_organizations", OrgsParams(since), TRUE)>>
              \o OrganizationsUntilEmpty(ids,
                     OrgsPage(ids, since, PerPage)[Len(OrgsPage(ids, since, PerPage))],
                     k + 1, fail_at).requests,
          raised |-> OrganizationsUntilEmpty(ids,
                         OrgsPage(ids, since, PerPage)[Len(OrgsPage(ids, since, PerPage))],
                         k + 1, fail_at).raised,
          result |-> OrgsPage(ids, since, PerPage)
                     \o OrganizationsUntilEmpty(ids,
                            OrgsPage(ids, since, PerPage)[Len(OrgsPage(ids, since, PerPage))],
                            k + 1, fail_at).result]

\* OrganizationsFrom with the page at hand and the rest of the loop computed.
OrganizationsWith(since, data, rest) ==
    [requests |-> <<Call("list_organizations", OrgsParams(since), TRUE)>> \o rest.requests,
     raised |-> rest.raised,
     result |-> IF rest.raised THEN <<>> ELSE data \o rest.result]

\* while True: request the page after since; if not data: break; append;
\* since = data[-1]["id"]; if len(data) < 100: break
RECURSIVE OrganizationsFrom(_, _, _, _)
OrganizationsFrom(ids, since, k, fail_at) ==
    IF k = fail_at
    THEN [requests |-> <<Call("list_organizations", OrgsParams(since), FALSE)>>,
          raised |-> TRUE, result |-> <<>>]
    ELSE IF Len(OrgsPage(ids, since, PerPage)) < PerPage
    THEN OrganizationsWith(since, OrgsPage(ids, since, PerPage),
                           [requests |-> <<>>, raised |-> FALSE, result |-> <<>>])
    ELSE OrganizationsWith(since, OrgsPage(ids, since, PerPage),
             OrganizationsFrom(ids, OrgsPage(ids, since, PerPage)[PerPage], k + 1, fail_at))

\* GithubClient.list_organizations
list_organizations(ids, fail_at) == OrganizationsFrom(ids, 0, 1, fail_at)

\* A GHES instance with organizations of ids 1..n, or 2, 4, .. 2n.
InitGithub ==
    /\ pc = "github_client"
    /\ log = <<>>
    /\ exit_code = "running"
    /\ args = NoArgs
    /\ loc = [deployment |-> 0, remaining |-> 1, calls |-> 0, op |-> "",
              raised |-> FALSE, result |-> <<>>]
    /\ world \in {[k \in 1..n |-> step * k] : n \in 0..MaxGithubOrgs, step \in {1, 2}}

ListOrganizations ==
    /\ pc = "github_client"
    /\ loc.remaining > 0
    /\ \E fail_at \in 0..(Len(world) \div PerPage + 1) :
          \E outcome \in {list_organizations(world, fail_at)} :
             /\ log' = log \o outcome.requests
             /\ loc' = [loc EXCEPT !.remaining = 0, !.calls = 1, !.op = "list_organizations",
                                   !.raised = outcome.raised, !.result = outcome.result]
    /\ UNCHANGED <<pc, args, world, exit_code>>

NextClient ==
    \/ ListScmConfigs
    \/ SearchRepos
    \/ ListProjectScans
    \/ PatchScmConfig
    \/ ListOrganizations

SpecClient == (InitClient \/ InitGithub) /\ [][NextClient]_vars

\* ---------------------------------------------------- claims: C1 to C8

\* The calls of one client operation, in issue order.
CallsOf(op) == SelectSeqIdx(log, [k \in 1..Len(log) |-> log[k].op = op])

CallsOfWith(op, ok) ==
    SelectSeqIdx(log, [k \in 1..Len(log) |-> log[k].op = op /\ log[k].ok = ok])

\* The arguments of a sequence of calls, concatenated in call order.
RECURSIVE ConcatArgs(_)
ConcatArgs(calls) ==
    IF Len(calls) = 0 THEN <<>> ELSE Head(calls).arg \o ConcatArgs(Tail(calls))

\* What a sequence of calls returned, concatenated in call order.
RECURSIVE ConcatRes(_)
ConcatRes(calls) ==
    IF Len(calls) = 0 THEN <<>> ELSE Head(calls).res \o ConcatRes(Tail(calls))

\* ceil(n / b), from its definition.
CeilDiv(n, b) == CHOOSE k \in 0..n : k * b >= n /\ (k = 0 \/ (k - 1) * b < n)

MinOf(a, b) == IF a < b THEN a ELSE b

\* The pre-computed batch loop of onboard-repos or of trigger-scans
\* --skip-scan-check has ended.
PrecomputedDone == pc \in {"onboard_report", "trigger_report"}

BatchOp == IF args.command = "onboard-repos" THEN "bulk_update_repos" ELSE "trigger_scans"

\* The target list: the ids of the repos left after the filters.
TargetIds == [k \in 1..Len(loc.repos) |-> loc.repos[k].id]

\* Every call of calls but the last has b ids, the last has 1 to b.
FullButLast(calls, b) ==
    /\ \A j \in 1..(Len(calls) - 1) : Len(calls[j].arg) = b
    /\ Len(calls) > 0 => Len(calls[Len(calls)].arg) \in 1..b

\* C1: pre-computed batching issues exactly ceil(N/B) mutation calls for a
\* target list of N >= 1 ids and batch size B >= 1; the chunks are consecutive
\* slices of the target list, each of B ids except possibly the last, and their
\* concatenation in call order is the target list.
C1_PrecomputedChunks ==
    PrecomputedDone =>
        /\ Len(TargetIds) >= 1
        /\ Len(CallsOf(BatchOp)) = CeilDiv(Len(TargetIds), args.batch_size)
        /\ \A j \in 1..Len(CallsOf(BatchOp)) :
              CallsOf(BatchOp)[j].arg =
                  SubSeq(TargetIds, (j - 1) * args.batch_size + 1,
                         MinOf(j * args.batch_size, Len(TargetIds)))
        /\ FullButLast(CallsOf(BatchOp), args.batch_size)
        /\ ConcatArgs(CallsOf(BatchOp)) = TargetIds

\* The spec's example scaled down: 3 ids and batch size 2 give two chunks, of
\* sizes 2 and 1.
C1_Witness ==
    /\ pc = "onboard_report"
    /\ Len(TargetIds) = 3
    /\ args.batch_size = 2
    /\ Len(CallsOf("bulk_update_repos")) = 2
    /\ Len(CallsOf("bulk_update_repos")[1].arg) = 2
    /\ Len(CallsOf("bulk_update_repos")[2].arg) = 1

\* C2: in pre-computed batching with delay > 0 and K chunks the delay is slept
\* exactly K-1 times: right after each chunk call that another chunk call
\* follows, whether it returned or raised, and never after the last chunk.
C2_DelayBetweenChunks ==
    PrecomputedDone /\ args.delay > 0 =>
        /\ Len(CallsOf("sleep")) = Len(CallsOf(BatchOp)) - 1
        /\ \A k \in 1..Len(log) :
              log[k].op = BatchOp =>
                  ((\E j \in (k + 1)..Len(log) : log[j].op = BatchOp)
                      <=> (k < Len(log) /\ log[k + 1].op = "sleep"))
        /\ log[Len(log)].op = BatchOp

\* Three chunks, two sleeps, one of them after a chunk that failed.
C2_Witness ==
    /\ pc = "trigger_report"
    /\ args.delay > 0
    /\ Len(CallsOf("trigger_scans")) = 3
    /\ Len(CallsOf("sleep")) = 2
    /\ \E k \in 1..(Len(log) - 1) :
          log[k].op = "trigger_scans" /\ ~log[k].ok /\ log[k + 1].op = "sleep"

\* The streaming loop of trigger-scans and its final flush have ended.
StreamingDone ==
    /\ args.command = "trigger-scans"
    /\ ~args.skip_scan_check
    /\ pc = "done"
    /\ loc.checked_count > 0

\* The number of repos found pending (check false or raised) among the checks
\* issued up to position k of the log.
PendingUpTo(k) ==
    Cardinality({j \in 1..k : log[j].op = "has_full_scan" /\ log[j].res # "true"})

\* The size of the pending buffer right after the repo checked at position k was
\* processed, before any flush.
BufferAfter(k) ==
    IF log[k].res # "true" /\ PendingUpTo(k) % args.batch_size = 0
    THEN args.batch_size
    ELSE PendingUpTo(k) % args.batch_size

IsLastCheck(k) == ~ \E j \in (k + 1)..Len(log) : log[j].op = "has_full_scan"

FlushFollows(k) == k < Len(log) /\ log[k + 1].op = "trigger_scans"

\* The ids found pending, in check order.
PendingIds ==
    ConcatArgs(SelectSeqIdx(log,
        [k \in 1..Len(log) |-> log[k].op = "has_full_scan" /\ log[k].res # "true"]))

\* C3: streaming batching triggers exactly when the pending buffer reaches B
\* right after an item is processed, and once more at the end of input for a
\* non-empty remainder: ceil(P/B) trigger calls for P pending items, all of B
\* ids except possibly the last, carrying the pending ids in order.
C3_StreamingFlushes ==
    StreamingDone =>
        /\ \A k \in 1..Len(log) :
              log[k].op = "has_full_scan" =>
                  (FlushFollows(k) <=>
                      IF IsLastCheck(k) THEN BufferAfter(k) > 0
                      ELSE BufferAfter(k) = args.batch_size)
        /\ \A k \in 1..Len(log) :
              log[k].op = "trigger_scans" => k > 1 /\ log[k - 1].op = "has_full_scan"
        /\ Len(CallsOf("trigger_scans")) = CeilDiv(Len(PendingIds), args.batch_size)
        /\ FullButLast(CallsOf("trigger_scans"), args.batch_size)
        /\ ConcatArgs(CallsOf("trigger_scans")) = PendingIds

\* The spec's example scaled down: B = 2, repos 1 and 2 pending, repo 3 pending:
\* one flush at repo 2 and a final flush with repo 3.
C3_Witness ==
    /\ StreamingDone
    /\ args.batch_size = 2
    /\ Len(PendingIds) = 3
    /\ Len(CallsOf("trigger_scans")) = 2
    /\ CallsOf("trigger_scans")[1].arg = <<1, 2>>
    /\ CallsOf("trigger_scans")[2].arg = <<3>>

\* C4: in streaming batching with delay > 0 no inter-chunk delay is slept after
\* the final flush of the run.
C4_NoDelayAfterFinalFlush ==
    StreamingDone /\ args.delay > 0 =>
        \A k \in 1..Len(log) :
            (log[k].op = "trigger_scans"
                /\ ~ \E j \in (k + 1)..Len(log) : log[j].op = "trigger_scans")
            => \A j \in (k + 1)..Len(log) :
                  ~(log[j].op = "sleep" /\ log[j].arg = <<"delay">>)

\* C5: fail-open: the id of a repo whose has_full_scan check raised is appended
\* to the pending buffer and later submitted in a trigger call, and the loop
\* goes on to the next repo.
C5_FailOpen ==
    args.command = "trigger-scans" /\ ~args.skip_scan_check =>
        /\ \A k \in 1..Len(log) :
              (log[k].op = "has_full_scan" /\ ~log[k].ok) =>
                  \/ log[k].arg[1] \in Range(loc.pending_batch)
                  \/ \E j \in (k + 1)..Len(log) :
                        log[j].op = "trigger_scans" /\ log[k].arg[1] \in Range(log[j].arg)
        /\ StreamingDone =>
              /\ Len(loc.pending_batch) = 0
              /\ ConcatArgs(CallsOf("has_full_scan")) = TargetIds

\* The check of a repo raised, a later repo was checked, and the id went out
\* in a trigger call.
C5_Witness ==
    /\ StreamingDone
    /\ \E k \in 1..Len(log) :
          /\ log[k].op = "has_full_scan"
          /\ ~log[k].ok
          /\ \E j \in (k + 1)..Len(log) : log[j].op = "has_full_scan"
          /\ \E j \in (k + 1)..Len(log) :
                log[j].op = "trigger_scans" /\ log[k].arg[1] \in Range(log[j].arg)

\* A batch loop has run to its end and the summary is printed.
LoopFinished == pc = "done" /\ Len(loc.printed) > 0

\* The ids of a list of configs, in order.
ConfigIds(configs) == [k \in 1..Len(configs) |-> configs[k].id]

\* Every unit of a pre-computed or streaming repo loop was attempted, and the
\* counters add up the ids of the calls that returned and of those that raised.
OnboardCountsAll ==
    /\ ConcatArgs(CallsOf("bulk_update_repos")) = TargetIds
    /\ loc.failed_count = Len(ConcatArgs(CallsOfWith("bulk_update_repos", FALSE)))
    /\ loc.all_updated = ConcatRes(CallsOfWith("bulk_update_repos", TRUE))
    /\ loc.printed = <<Len(loc.all_updated), loc.failed_count>>

TriggerCountsAll ==
    /\ args.skip_scan_check => ConcatArgs(CallsOf("trigger_scans")) = TargetIds
    /\ ~args.skip_scan_check =>
          /\ ConcatArgs(CallsOf("has_full_scan")) = TargetIds
          /\ ConcatArgs(CallsOf("trigger_scans")) = PendingIds
    /\ loc.triggered_count = Len(ConcatArgs(CallsOfWith("trigger_scans", TRUE)))
    /\ loc.failed_count = Len(ConcatArgs(CallsOfWith("trigger_scans", FALSE)))
    /\ loc.printed =
          IF args.skip_scan_check THEN <<loc.triggered_count, loc.failed_count>>
          ELSE <<Len(TargetIds), loc.triggered_count,
                 Len(TargetIds) - Len(PendingIds), loc.failed_count>>

\* Every config of an item loop was attempted with op, and the two counters
\* are the numbers of calls that returned and that raised.
ItemsCountAll(op, succeeded) ==
    /\ ConcatArgs(CallsOf(op)) = ConfigIds(loc.matching_configs)
    /\ succeeded = Len(CallsOfWith(op, TRUE))
    /\ loc.failed = Len(CallsOfWith(op, FALSE))
    /\ loc.printed = <<succeeded, loc.failed>>

CreateCountsAll ==
    /\ ConcatArgs(CallsOf("create_scm_config")) =
          [k \in 1..Len(loc.orgs_to_create) |-> loc.orgs_to_create[k].login]
    /\ loc.created = Len(CallsOfWith("create_scm_config", TRUE))
    /\ loc.failed = Len(CallsOfWith("create_scm_config", FALSE))
    /\ loc.printed = <<loc.created, loc.unhealthy, loc.failed>>

\* A check that raises counts as unhealthy.
CheckCountsAll ==
    /\ ConcatArgs(CallsOf("check_scm_config")) = ConfigIds(loc.matching_configs)
    /\ loc.healthy = Cardinality({k \in 1..Len(log) : log[k].ok /\ log[k].res = "healthy"})
    /\ loc.unhealthy = Len(loc.matching_configs) - loc.healthy
    /\ loc.unhealthy >= Len(CallsOfWith("check_scm_config", FALSE))
    /\ loc.printed = <<loc.healthy, loc.unhealthy>>

\* C6: in every batch loop a failing unit never halts the loop: every later
\* unit is still attempted, and the final counters count the units that
\* succeeded and the units that failed.
C6_FailureNeverHalts ==
    LoopFinished =>
        CASE args.command = "onboard-repos" -> OnboardCountsAll
          [] args.command = "trigger-scans" -> TriggerCountsAll
          [] args.command = "delete-configs" -> ItemsCountAll("delete_scm_config", loc.deleted)
          [] args.command = "update-configs" -> ItemsCountAll("patch_scm_config", loc.updated)
          [] args.command = "create-missing-configs" -> CreateCountsAll
          [] args.command = "check-configs" -> CheckCountsAll
          [] OTHER -> TRUE

\* The first of two chunks fails, the second is still submitted and succeeds:
\* 1 repo onboarded, 2 failed.
C6_Witness ==
    /\ LoopFinished
    /\ args.command = "onboard-repos"
    /\ Len(CallsOf("bulk_update_repos")) = 2
    /\ ~CallsOf("bulk_update_repos")[1].ok
    /\ CallsOf("bulk_update_repos")[2].ok
    /\ loc.printed = <<1, 2>>

MutatingOps ==
    {"create_scm_config", "patch_scm_config", "delete_scm_config",
     "bulk_update_repos", "trigger_scans"}

\* C7: dry-run safety: a run of a mutating command with dry-run set issues no
\* mutating network call (create, patch, delete, bulk update, trigger scans) in
\* any reachable state.
C7_DryRunSafety ==
    args.dry_run => \A k \in 1..Len(log) : log[k].op \notin MutatingOps

\* A dry run that found organizations to create configs for, and returned.
C7_Witness ==
    /\ args.dry_run
    /\ args.command = "create-missing-configs"
    /\ pc = "done"
    /\ Len(loc.orgs_to_create) > 0
    /\ Len(log) = 3

\* C8: delete-configs with an empty or absent --orgs list fails validation and
\* exits with an error before any network call: no deployment fetch, no config
\* listing and no delete call has been issued when it exits.
C8_DeleteWithoutOrgs ==
    (args.command = "delete-configs" /\ ~TruthyList(args.orgs)) =>
        /\ Len(log) = 0
        /\ pc \in {"main", "exit"}
        /\ pc = "exit" => exit_code \in {"1", "2"}

\* The run with --orgs absent has exited, with no call issued.
C8_Witness ==
    /\ args.command = "delete-configs"
    /\ args.orgs = NoList
    /\ pc = "exit"
    /\ exit_code # "0"
    /\ Len(log) = 0

\* ------------------------------------------------------- claims: C9, C10

MissingReturned == pc \in {"list_missing_report", "done"} /\ args.command = "list-missing-configs"

\* A config serves the GHES instance: it has a base_url, and the base_url and the
\* GHES URL are equal after stripping trailing slashes and lower-casing.
ServesGhes(c) ==
    /\ c.base_url # None
    /\ NormalizeUrl(c.base_url) = NormalizeUrl(args.ghes_url)

\* s is made of elements of inv, in inv's order, each at most once (ids are positions).
InInventoryOrder(s, inv) ==
    /\ \A k \in 1..Len(s) : s[k].id \in 1..Len(inv) /\ s[k] = inv[s[k].id]
    /\ \A j, k \in 1..Len(s) : j < k => s[j].id < s[k].id

\* C9: get_missing_orgs returns as missing exactly the organizations whose
\* lower-cased login is not among the lower-cased namespaces of the configs whose
\* normalized base_url equals the normalized GHES URL, in the order of the
\* organization list, and as existing configs exactly those matching configs.
C9_MissingOrgsExact ==
    MissingReturned =>
        /\ InInventoryOrder(loc.missing_orgs, world.orgs)
        /\ InInventoryOrder(loc.existing_configs, world.configs)
        /\ \A org \in Range(world.orgs) :
              org \in Range(loc.missing_orgs) <=>
                  ~ \E c \in Range(world.configs) :
                        ServesGhes(c) /\ Lower(c.namespace) = Lower(org.login)
        /\ \A c \in Range(world.configs) :
              c \in Range(loc.existing_configs) <=> ServesGhes(c)

\* The spec's example: orgs [o, p, q] and one config (X, P) for GHES X give
\* missing [o, q] and the one config as existing.
C9_Witness ==
    /\ MissingReturned
    /\ Len(world.orgs) = 3
    /\ Len(world.configs) = 1
    /\ world.configs[1].namespace = <<"p">>
    /\ world.configs[1].base_url = UrlGUpper
    /\ Len(loc.missing_orgs) = 2
    /\ loc.missing_orgs[1] = world.orgs[1]
    /\ loc.missing_orgs[2] = world.orgs[3]
    /\ loc.existing_configs = world.configs

\* C10: no cross-host aliasing: an organization none of whose same-namespace
\* configs serves the GHES URL is reported missing, also when configs with its
\* namespace exist under another base_url or with none; and no config that does
\* not serve the GHES URL is among the existing configs.
C10_NoCrossHostAliasing ==
    MissingReturned =>
        /\ \A org \in Range(world.orgs) :
              (\A c \in Range(world.configs) :
                    Lower(c.namespace) = Lower(org.login) => ~ServesGhes(c))
                 => org \in Range(loc.missing_orgs)
        /\ \A c \in Range(loc.existing_configs) : ServesGhes(c)

\* An organization is missing although configs with its namespace exist on
\* another host and with no base_url.
C10_Witness ==
    /\ MissingReturned
    /\ \E org \in Range(loc.missing_orgs) :
          /\ \E c \in Range(world.configs) :
                Lower(c.namespace) = Lower(org.login) /\ c.base_url = UrlH
          /\ \E c \in Range(world.configs) :
                Lower(c.namespace) = Lower(org.login) /\ c.base_url = None

\* ------------------------------------------------------ claims: C11 to C20

\* The pair of a repo, or of a config, in the form the filter compares:
\* trailing slashes stripped from the base URL, both lower-cased.
NormPair(base_url, namespace) == <<Lower(RStripSlash(base_url)), Lower(namespace)>>

\* The pair is that of a config of the list that has a base URL and satisfies
\* good.
PairOfSome(parsed, good) ==
    /\ parsed # NoneObj
    /\ \E k \in 1..Len(world.configs) :
          /\ good[k]
          /\ world.configs[k].base_url # None
          /\ world.configs[k].base_url # <<>>
          /\ NormPair(world.configs[k].base_url, world.configs[k].namespace)
                = NormPair(parsed.base_url, parsed.namespace)

\* The repo has a URL and the pair of the URL is that of a good config.
RepoOfSome(repo, good) ==
    /\ repo.url # None
    /\ repo.url # <<>>
    /\ PairOfSome(get_namespace_from_url(repo.url), good)

MeetingConfigs ==
    [k \in 1..Len(world.configs) |->
        meets_requirements(world.configs[k], args.required_scopes)]

\* For every repo of the input: its pair is that of a config that meets the
\* requirements.
FilterSides ==
    [k \in 1..Len(world.repos) |-> RepoOfSome(world.repos[k], MeetingConfigs)]

\* The number of repos among the first k of the input that are on side b.
FilterRank(side, k, b) == Cardinality({j \in 1..k : side[j] = b})

InOneList(side) ==
    /\ Len(loc.repos) = FilterRank(side, Len(world.repos), TRUE)
    /\ Len(loc.skipped) = FilterRank(side, Len(world.repos), FALSE)
    /\ \A k \in 1..Len(world.repos) :
          /\ (world.repos[k] \in Range(loc.repos)) # (world.repos[k] \in Range(loc.skipped))
          /\ IF side[k]
             THEN loc.repos[FilterRank(side, k, TRUE)] = world.repos[k]
             ELSE loc.skipped[FilterRank(side, k, FALSE)] = world.repos[k]

\* C11: filter_repos_by_healthy_scm partitions its input: every repo is in
\* exactly one of healthy and skipped, both lists keep the input order, a repo
\* without URL or with a URL that has no pair is skipped, and a repo is healthy
\* exactly when its lower-cased pair is that of a config that meets the
\* requirements.
C11_FilterPartitions ==
    pc = "filtered" =>
        /\ \A side \in {FilterSides} : InOneList(side)
        /\ \A k \in 1..Len(world.repos) :
              (\/ world.repos[k].url = None
               \/ get_namespace_from_url(world.repos[k].url) = NoneObj)
                    => world.repos[k] \in Range(loc.skipped)

\* A repo whose URL urlparse rejects, then a repo of a healthy namespace given
\* in upper case: one repo on each side.
C11_Witness ==
    /\ pc = "filtered"
    /\ Len(world.repos) = 2
    /\ Len(loc.repos) = 1
    /\ Len(loc.skipped) = 1
    /\ loc.repos[1] = world.repos[2]
    /\ get_namespace_from_url(loc.repos[1].url).namespace = <<"O">>
    /\ loc.skipped[1].url # None
    /\ get_namespace_from_url(loc.skipped[1].url) = NoneObj

\* The configs whose status reports ok = false, and those whose status reports
\* ok = true.
NotOkConfigs ==
    [k \in 1..Len(world.configs) |->
        world.configs[k].status # NoneObj /\ ~world.configs[k].status.ok]

OkConfigs ==
    [k \in 1..Len(world.configs) |->
        world.configs[k].status # NoneObj /\ world.configs[k].status.ok]

\* C12 as stated: a repo whose pair is that of a config with status.ok = false
\* is in skipped, whatever the other configs are.
C12_NotOkAlwaysSkipped ==
    pc = "filtered" =>
        \A k \in 1..Len(world.repos) :
            RepoOfSome(world.repos[k], NotOkConfigs)
                => world.repos[k] \in Range(loc.skipped)

\* C12: a repo whose pair is that of a config with status.ok = false, and of no
\* config with status.ok = true, is in skipped and not in healthy, also when no
\* required scopes are given.
C12_NotOkOnlySkipped ==
    pc = "filtered" =>
        \A k \in 1..Len(world.repos) :
            (/\ RepoOfSome(world.repos[k], NotOkConfigs)
             /\ ~RepoOfSome(world.repos[k], OkConfigs))
                => /\ world.repos[k] \in Range(loc.skipped)
                   /\ world.repos[k] \notin Range(loc.repos)

\* No required scopes, and a repo of a namespace whose only config is not ok.
C12_Witness ==
    /\ pc = "filtered"
    /\ args.required_scopes = None
    /\ \E k \in 1..Len(world.repos) :
          /\ RepoOfSome(world.repos[k], NotOkConfigs)
          /\ ~RepoOfSome(world.repos[k], OkConfigs)
          /\ world.repos[k] \in Range(loc.skipped)

AllConfigs == [k \in 1..Len(world.configs) |-> TRUE]

\* The normalized pair of the URL of a repo that has a pair.
RepoNormPair(repo) ==
    NormPair(get_namespace_from_url(repo.url).base_url,
             get_namespace_from_url(repo.url).namespace)

HasPair(repo) ==
    repo.url # None /\ repo.url # <<>> /\ get_namespace_from_url(repo.url) # NoneObj

\* C17: matching is invariant under case and trailing slashes.  A repo whose
\* pair, after stripping trailing slashes from the base URL and lower-casing
\* both parts, is that of a config that meets the requirements is healthy; a
\* repo whose normalized pair is that of no config is never healthy; two repos
\* with the same normalized pair are on the same side.
C17_MatchingNormalized ==
    pc = "filtered" =>
        \* pairs[k]: the normalized pair of repo k in a 1-tuple, <<>> without one;
        \* healthy[k]: repo k is in the healthy list.
        \E pairs \in {[k \in 1..Len(world.repos) |->
                         IF HasPair(world.repos[k])
                         THEN <<RepoNormPair(world.repos[k])>> ELSE <<>>]} :
        \E healthy \in {[k \in 1..Len(world.repos) |->
                           world.repos[k] \in Range(loc.repos)]} :
            /\ \A k \in 1..Len(world.repos), j \in 1..Len(world.configs) :
                  (/\ pairs[k] # <<>>
                   /\ Truthy(world.configs[j].base_url)
                   /\ meets_requirements(world.configs[j], args.required_scopes)
                   /\ <<NormPair(world.configs[j].base_url, world.configs[j].namespace)>>
                         = pairs[k])
                      => healthy[k]
            /\ \A k \in 1..Len(world.repos) :
                  ~RepoOfSome(world.repos[k], AllConfigs) => ~healthy[k]
            /\ \A k, m \in 1..Len(world.repos) :
                  (pairs[k] # <<>> /\ pairs[k] = pairs[m])
                      => healthy[k] = healthy[m]

\* A healthy repo whose pair differs from the config's in case and in the
\* trailing slash of the base URL, and a skipped repo of another host.
C17_Witness ==
    /\ pc = "filtered"
    /\ \E k \in 1..Len(loc.repos) :
          /\ get_namespace_from_url(loc.repos[k].url).base_url = <<"s", ":", "/", "/", "G">>
          /\ \E j \in 1..Len(world.configs) :
                /\ world.configs[j].base_url = UrlGUpper
                /\ world.configs[j].namespace = <<"O">>
                /\ meets_requirements(world.configs[j], args.required_scopes)
    /\ \E m \in 1..Len(loc.skipped) :
          /\ HasPair(loc.skipped[m])
          /\ ~RepoOfSome(loc.skipped[m], AllConfigs)

\* status.ok of the config given to meets_requirements; false without status.
StatusOk == world.config.status # NoneObj /\ world.config.status.ok

\* A non-empty list of required scopes is given.
ScopesRequired == world.required # None /\ Len(world.required) > 0

\* C13: meets_requirements is false whenever status is absent or status.ok is
\* false; with no required scopes it equals status.ok; with required scopes and
\* reported token scopes it is true exactly when status.ok holds and every
\* required scope is present.
C13_MeetsRequirements ==
    pc = "met" =>
        /\ ~StatusOk => ~loc.meets
        /\ ~ScopesRequired => (loc.meets = StatusOk)
        /\ (ScopesRequired /\ world.config.token_scopes # NoneObj)
              => (loc.meets = (/\ StatusOk
                               /\ \A k \in 1..Len(world.required) :
                                     world.required[k]
                                        \in world.config.token_scopes.granted))

\* ok = true with read_contents granted and read_members not: required
\* [read_contents, read_members] fails.
C13_Witness ==
    /\ pc = "met"
    /\ StatusOk
    /\ world.config.token_scopes # NoneObj
    /\ world.config.token_scopes.granted = {"read_contents"}
    /\ world.required = <<"read_contents", "read_members">>
    /\ ~loc.meets

\* C14: a healthy config whose token scopes are not reported meets the
\* requirements only if no required scopes are given: with a non-empty list of
\* required scopes it does not, in meets_requirements and in check-configs.
C14_UnknownScopesFail ==
    (pc = "met" /\ StatusOk /\ world.config.token_scopes = NoneObj)
        => /\ loc.meets = ~ScopesRequired
           /\ loc.checked_healthy = ~ScopesRequired

\* The URL given to get_namespace_from_url reads scheme://host...: one letter
\* of scheme, "://", and a host of at least one letter.
HasSchemeAndHost ==
    /\ Len(world) >= 5
    /\ world[1] \in {"s", "S"}
    /\ SubSeq(world, 2, 4) = <<":", "/", "/">>
    /\ world[5] \in {"o", "O"}

\* The position after the host: of the first character that is no letter, or
\* one past the end of the URL.
HostEnd ==
    IF FindFrom(world, {"/", "?"}, 5) = 0 THEN Len(world) + 1
    ELSE FindFrom(world, {"/", "?"}, 5)

\* scheme://host or scheme://host/: nothing but slashes after the host.
EmptyPath ==
    /\ HasSchemeAndHost
    /\ \A k \in HostEnd..Len(world) : world[k] = "/"

\* The position of the first character after the slashes that follow the host;
\* 0 when there is none.
SegmentStart == FindFrom(world, {"o", "O", "?"}, HostEnd)

\* scheme://host/segment...: the path has a first segment.
HasPathSegment ==
    /\ HasSchemeAndHost
    /\ HostEnd <= Len(world)
    /\ world[HostEnd] = "/"
    /\ SegmentStart # 0
    /\ world[SegmentStart] # "?"

SegmentEnd ==
    IF FindFrom(world, {"/", "?"}, SegmentStart) = 0 THEN Len(world) + 1
    ELSE FindFrom(world, {"/", "?"}, SegmentStart)

\* C15: get_namespace_from_url returns None for every URL with an empty path
\* (scheme://host, scheme://host/) and for every input urlparse rejects, and it
\* never returns a pair with an empty namespace.
C15_EmptyPathIsNone ==
    pc = "parsed" =>
        /\ (EmptyPath \/ urlparse(world).raises) => loc = NoneObj
        /\ loc # NoneObj => Len(loc.namespace) > 0

\* C16: for every URL scheme://host/... with at least one path segment,
\* get_namespace_from_url returns the pair (scheme://host, first path segment),
\* the scheme as urlparse reports it, in lower case.
C16_FirstSegment ==
    (pc = "parsed" /\ HasPathSegment) =>
        /\ loc # NoneObj
        /\ loc.base_url = <<LowerChar(world[1])>> \o SubSeq(world, 2, HostEnd - 1)
        /\ loc.namespace = SubSeq(world, SegmentStart, SegmentEnd - 1)

\* s://o/O/o gives (s://o, O): a URL with two path segments.
C16_Witness ==
    /\ pc = "parsed"
    /\ HasPathSegment
    /\ world = <<"s", ":", "/", "/", "o", "/", "O", "/", "o">>
    /\ loc.base_url = <<"s", ":", "/", "/", "o">>
    /\ loc.namespace = <<"O">>

\* The tokens of the value of --required-scopes that are names: neither a comma
\* nor a blank.
IsNameAt(k) == world[k] \notin {",", " "}

GivenNames == SelectSeqIdx(world, [k \in 1..Len(world) |-> IsNameAt(k)])

\* Every name of the value is a scope name, and a comma separates any two names.
OnlyScopeNames ==
    /\ \A k \in 1..Len(world) : IsNameAt(k) => world[k] \in Range(ALL_SCOPES)
    /\ \A i, j \in 1..Len(world) :
          (i < j /\ IsNameAt(i) /\ IsNameAt(j))
              => \E k \in i..j : world[k] = ","

\* C18: parse_scopes rejects with a validation error every input that contains
\* a name outside ALL_SCOPES, no unknown name being dropped, and otherwise
\* returns the given names in input order.
C18_ParseScopesRejects ==
    pc = "scopes_parsed" =>
        /\ (\E k \in 1..Len(world) : IsNameAt(k) /\ world[k] \notin Range(ALL_SCOPES))
              => loc.raises
        /\ loc.raises = ~OnlyScopeNames
        /\ ~loc.raises => loc.scopes = GivenNames

\* "read_members, x" is rejected.
C18_Witness ==
    /\ pc = "scopes_parsed"
    /\ world = <<"read_members", ",", " ", "x">>
    /\ loc.raises

\* The names of required whose scope the token is not granted.
NotGranted ==
    [k \in 1..Len(world.required) |->
        world.required[k] \notin world.token_scopes.granted]

\* C19: missing_scopes(required) is the subsequence of required, in input
\* order, of the names whose scope is not present, and has_scopes(required) is
\* true exactly when missing_scopes(required) is empty.
C19_MissingScopes ==
    pc = "scopes_checked" =>
        /\ Len(loc.missing) = Cardinality({k \in 1..Len(world.required) : NotGranted[k]})
        /\ \A k \in 1..Len(world.required) :
              NotGranted[k]
                 => loc.missing[Cardinality({j \in 1..k : NotGranted[j]})]
                       = world.required[k]
        /\ loc.has = (Len(loc.missing) = 0)

\* Two of three required scopes are missing, in the order given, the first of
\* them listed last in ALL_SCOPES.
C19_Witness ==
    /\ pc = "scopes_checked"
    /\ world.required = <<"write_contents", "read_contents", "read_members">>
    /\ world.token_scopes.granted = {"read_contents"}
    /\ loc.missing = <<"write_contents", "read_members">>
    /\ ~loc.has

\* The calls that fetch an inventory: the deployment, a listing, a search.
InventoryOps ==
    {"get_deployment", "list_organizations", "list_scm_configs", "search_repos"}

\* The calls that read one item: the scan-history check, the health check.
ItemReadOps == {"has_full_scan", "check_scm_config"}

\* C20 as stated: once the first mutation call of a run is issued, no fetch or
\* read call (listing, scan-history check, health check) is issued afterwards.
C20_NoReadAfterMutation ==
    \A j, k \in 1..Len(log) :
        (j < k /\ log[j].op \in MutatingOps)
            => log[k].op \notin InventoryOps \cup ItemReadOps

\* C20: in every batch job the inventory fetches (deployment, listings,
\* searches) complete before any mutation call is issued, and no read call at
\* all follows a mutation in the jobs with pre-computed targets; the calls that
\* read one item follow mutations only in streaming trigger-scans (scan-history
\* checks) and in the create commands (the health check of the created config).
C20_InventoryBeforeMutation ==
    \A j \in 1..Len(log) :
        log[j].op \in MutatingOps =>
            \A k \in (j + 1)..Len(log) :
               /\ log[k].op \notin InventoryOps
               /\ log[k].op = "has_full_scan"
                     => (args.command = "trigger-scans" /\ ~args.skip_scan_check)
               /\ log[k].op = "check_scm_config"
                     => args.command \in {"create-config", "create-missing-configs"}

\* An onboard run with --check-scm: the configs are listed and the repos
\* searched, then two chunks are submitted.
C20_Witness ==
    /\ args.command = "onboard-repos"
    /\ \E h, i, j, k \in 1..Len(log) :
          /\ h < i /\ i < j /\ j < k
          /\ log[h].op = "list_scm_configs"
          /\ log[i].op = "search_repos"
          /\ log[j].op = "bulk_update_repos"
          /\ log[k].op = "bulk_update_repos"

\* ------------------------------------------------------ claims: C21 to C30

\* The positions in the log of the requests of the deployment endpoint, and of
\* the requests that carry the deployment id.
DeploymentAt == {k \in 1..Len(log) : log[k].op = "GET /agent/deployment"}

WithDeploymentId ==
    {k \in 1..Len(log) : log[k].op \notin {"GET /agent/deployment", "list_organizations"}}

\* C21: deployment memoization.  Over any sequence of operations on one
\* SemgrepClient the deployment endpoint is requested successfully at most
\* once, no request of it follows the successful one, and every request of every
\* operation carries the deployment id that request answered.
C21_DeploymentMemoized ==
    /\ Cardinality({k \in DeploymentAt : log[k].ok}) <= 1
    /\ \A j, k \in DeploymentAt : (log[j].ok /\ j # k) => k < j
    /\ \A j, k \in WithDeploymentId : log[j].arg.deployment_id = log[k].arg.deployment_id
    /\ \A k \in WithDeploymentId :
          \E j \in DeploymentAt :
             /\ j < k
             /\ log[j].ok
             /\ log[k].arg.deployment_id = Cardinality({i \in DeploymentAt : i <= j})

\* Three operations: the first fails on the deployment request, the second
\* fetches the deployment and lists, the third patches with the cached value.
C21_Witness ==
    /\ pc = "semgrep_client"
    /\ loc.remaining = 0
    /\ loc.op = "patch_scm_config"
    /\ ~loc.raised
    /\ Len(log) = 5
    /\ log[1].op = "GET /agent/deployment" /\ ~log[1].ok
    /\ log[2].op = "GET /agent/deployment" /\ log[2].ok
    /\ log[3].op = "list_scm_configs"
    /\ log[5].op = "patch_scm_config"
    /\ log[5].arg.deployment_id = 2

\* The body of the request holds the field key exactly when the argument is
\* not None, with the value given.
BodyHolds(body, key, arg, value) ==
    /\ (key \in DOMAIN body) = (arg # "None")
    /\ arg # "None" => body[key] = value

\* C22: patch_scm_config sends in the request body exactly the fields whose
\* argument is not None (subscribe, autoScan, useNetworkBroker,
\* autoScanSettings.diffEnabled), with the value given, false included; a field
\* whose argument is None is not in the body.
C22_PatchBodyFields ==
    \A k \in 1..Len(log) :
        log[k].op = "patch_scm_config" =>
            /\ DOMAIN log[k].arg.body
                  \subseteq {"subscribe", "autoScan", "useNetworkBroker", "autoScanSettings"}
            /\ BodyHolds(log[k].arg.body, "subscribe", args.subscribe, args.subscribe)
            /\ BodyHolds(log[k].arg.body, "autoScan", args.auto_scan, args.auto_scan)
            /\ BodyHolds(log[k].arg.body, "useNetworkBroker", args.use_network_broker,
                         args.use_network_broker)
            /\ BodyHolds(log[k].arg.body, "autoScanSettings", args.diff_enabled,
                         [diffEnabled |-> args.diff_enabled])

\* subscribe=False, auto_scan=None, use_network_broker=True, diff_enabled=False:
\* the body holds three fields, two of them false.
C22_Witness ==
    /\ pc = "semgrep_client"
    /\ args.subscribe = "False"
    /\ args.auto_scan = "None"
    /\ args.use_network_broker = "True"
    /\ args.diff_enabled = "False"
    /\ \E k \in 1..Len(log) :
          /\ log[k].op = "patch_scm_config"
          /\ log[k].ok
          /\ DOMAIN log[k].arg.body = {"subscribe", "useNetworkBroker", "autoScanSettings"}

\* The organizations of the instance before the j-th page of 100.
SeenBefore(j) == PerPage * (j - 1)

\* C23: list_organizations requests pages of size 100, the first without
\* cursor and every later one with the id of the last organization seen,
\* returns the concatenation of all pages in order, and stops after the first
\* page with fewer than 100 entries: an instance of n organizations takes
\* n div 100 + 1 requests.
C23_OrganizationPages ==
    (pc = "github_client" /\ loc.op = "list_organizations") =>
        /\ \A j \in 1..Len(log) :
              /\ log[j].op = "list_organizations"
              /\ log[j].arg["per_page"] = 100
              /\ ("since" \in DOMAIN log[j].arg) = (j > 1)
              /\ j > 1 => /\ SeenBefore(j) <= Len(world)
                          /\ log[j].arg["since"] = world[SeenBefore(j)]
              /\ j < Len(log) => log[j].ok
        /\ ~loc.raised =>
              /\ Len(log) = Len(world) \div 100 + 1
              /\ log[Len(log)].ok
              /\ loc.result = world
        /\ loc.raised => (~log[Len(log)].ok /\ loc.result = <<>>)

\* 200 organizations of even ids: two full pages and an empty one, the third
\* request with since = 400.
C23_Witness ==
    /\ pc = "github_client"
    /\ loc.op = "list_organizations"
    /\ ~loc.raised
    /\ Len(world) = 200
    /\ Len(log) = 3
    /\ log[2].arg["since"] = 200
    /\ log[3].arg["since"] = 400
    /\ Len(loc.result) = 200

ListingOps == {"list_scm_configs", "search_repos", "list_project_scans"}

\* The items of the first k pages of the server, in order.
RECURSIVE ItemsOfPages(_)
ItemsOfPages(k) == IF k = 0 THEN <<>> ELSE ItemsOfPages(k - 1) \o world[k].items

\* The run is one listing on a fresh client whose deployment request succeeded:
\* the log is that request and the page requests.
OneListing ==
    /\ pc = "semgrep_client"
    /\ loc.op \in ListingOps
    /\ loc.calls = 1
    /\ Len(log) >= 2
    /\ log[1].op = "GET /agent/deployment"
    /\ log[1].ok
    /\ \A j \in 2..Len(log) : log[j].op = loc.op

\* C30: the cursor-paginated listings (list_scm_configs, search_repos,
\* list_project_scans) drain the collection: the first request carries no
\* cursor, every later one the cursor of the page before, the requests end
\* with the first page without cursor, and the result is the concatenation in
\* order of the items of all these pages; when a page request fails the
\* function raises and returns no partial listing.
C30_ListingsDrain ==
    OneListing =>
        /\ log[2].arg.cursor = None
        /\ \A j \in 3..Len(log) :
              /\ j - 2 < Len(world)
              /\ log[j].arg.cursor = world[j - 2].cursor
        /\ \A j \in 2..(Len(log) - 1) : log[j].ok
        /\ ~loc.raised =>
              /\ log[Len(log)].ok
              /\ Len(log) - 1 = Len(world)
              /\ loc.result = ItemsOfPages(Len(world))
        /\ loc.raised => (~log[Len(log)].ok /\ loc.result = <<>>)

\* search_repos over three pages of 2, 0 and 1 items, the last with an empty
\* cursor.
C30_Witness ==
    /\ OneListing
    /\ loc.op = "search_repos"
    /\ ~loc.raised
    /\ Len(world) = 3
    /\ world[3].cursor = <<>>
    /\ Len(world[2].items) = 0
    /\ loc.result = <<1, 2, 5>>
    /\ Len(log) = 4

\* The token variables the handler of a command reads with get_env_or_exit.
TokensRead(command) ==
    IF command \in {"create-config", "create-missing-configs"}
    THEN {"SEMGREP_APP_TOKEN", "GHES_TOKEN"}
    ELSE {"SEMGREP_APP_TOKEN"}

TokenAbsent ==
    \E v \in TokensRead(args.command) : args.env[v] \in {None, <<>>}

\* C28: when a token variable the command requires is unset or empty and the
\* command line is accepted, the run issues no network call at all and ends
\* with exit status 1.
C28_MissingTokenIsFatal ==
    (TokenAbsent /\ ~ArgparseRejects(args)) =>
        /\ log = <<>>
        /\ pc \in {"main", "exit"}
        /\ pc = "exit" => exit_code = "1"

\* create-config --dry-run with GHES_TOKEN empty has exited with status 1.
C28_Witness ==
    /\ args.command = "create-config"
    /\ args.dry_run
    /\ args.env.SEMGREP_APP_TOKEN = TokenSet
    /\ args.env.GHES_TOKEN = <<>>
    /\ pc = "exit"
    /\ exit_code = "1"
    /\ log = <<>>

\* The organizations the create calls of the log name, in call order.
CreatedLogins ==
    SelectSeq(log, LAMBDA c : c.op = "create_scm_config")

\* The namespaces, lower-cased, of the configs on the GHES URL.
AlreadyConfigured ==
    {Lower(world.configs[k].namespace) :
        k \in {j \in 1..Len(world.configs) :
                  /\ world.configs[j].base_url # None
                  /\ Lower(RStripSlash(world.configs[j].base_url))
                         = Lower(RStripSlash(args.ghes_url))}}

\* C27: create-missing-configs never issues a create call for an organization
\* that already has a config on the GHES URL (namespace compared without case),
\* whatever the source of the targets, and never two create calls for the same
\* organization in one run.
C27_CreateIsIdempotent ==
    args.command = "create-missing-configs" =>
        /\ \A k \in 1..Len(CreatedLogins) :
              Lower(CreatedLogins[k].arg[1]) \notin AlreadyConfigured
        /\ \A j, k \in 1..Len(CreatedLogins) :
              j # k => Lower(CreatedLogins[j].arg[1]) # Lower(CreatedLogins[k].arg[1])

\* The chunk mutation calls of the log that raised, in call order.
FailedChunkCalls ==
    SelectSeq(log, LAMBDA c : c.op \in {"bulk_update_repos", "trigger_scans"} /\ ~c.ok)

RECURSIVE UnitsIn(_)
UnitsIn(records) ==
    IF records = <<>> THEN 0 ELSE Len(Head(records).batch) + UnitsIn(Tail(records))

\* Every failed chunk call has its record, in order, with the ids of its units.
FailedChunksRecorded ==
    /\ Len(loc.failed_batches) = Len(FailedChunkCalls)
    /\ \A k \in 1..Len(FailedChunkCalls) :
          k <= Len(loc.failed_batches)
             => /\ loc.failed_batches[k].batch = FailedChunkCalls[k].arg
                /\ loc.failed_batches[k].batch_num >= 1
                /\ loc.failed_batches[k].error = "str(e)"
    /\ loc.failed_count = UnitsIn(loc.failed_batches)

\* C29: after a run of onboard-repos or of trigger-scans (either chunking
\* policy) every chunk whose mutation call failed has a record holding the chunk
\* number, the ids of its units and the error message, and the failure counter
\* equals the number of units in the recorded chunks.
C29_FailedChunksRecorded ==
    (args.command \in {"onboard-repos", "trigger-scans"} /\ pc = "done")
        => FailedChunksRecorded

BatchCommands ==
    {"onboard-repos", "trigger-scans", "delete-configs", "update-configs",
     "check-configs", "create-missing-configs"}

\* The calls of the execution loops: the mutations and the per-item reads.
UnitOps == MutatingOps \cup ItemReadOps

UnitFailed == \E k \in 1..Len(log) : log[k].op \in UnitOps /\ ~log[k].ok

LastCallFailed(ops) ==
    log # <<>> /\ log[Len(log)].op \in ops /\ ~log[Len(log)].ok

\* The validation errors and the fatal errors: a rejected command line, a
\* missing token, delete-configs without organizations, a failed inventory
\* fetch, the failed create of create-config.
ValidationOrFatal ==
    \/ ArgparseRejects(args)
    \/ TokenAbsent
    \/ args.command = "delete-configs" /\ ~TruthyList(args.orgs)
    \/ LastCallFailed(InventoryOps)
    \/ args.command = "create-config" /\ LastCallFailed({"create_scm_config"})

\* C24: a batch command in which units of work failed in the execution loop
\* never exits non-zero: its run goes on, and when it ends it has printed its
\* summary and exits with status 0; a non-zero exit status happens only on a
\* validation error or a fatal error.
C24_PartialFailureExitsZero ==
    /\ (args.command \in BatchCommands /\ UnitFailed)
          => /\ exit_code \in {"running", "0"}
             /\ pc \notin {"exit", "crashed"}
             /\ pc = "done" => (exit_code = "0" /\ loc.printed # <<>>)
    /\ exit_code \notin {"running", "0"} => ValidationOrFatal

\* onboard-repos has ended with status 0 and its summary after both of its
\* batches failed.
C24_Witness ==
    /\ args.command = "onboard-repos"
    /\ pc = "done"
    /\ exit_code = "0"
    /\ UnitFailed
    /\ loc.all_updated = <<>>
    /\ Len(loc.failed_batches) = 2
    /\ loc.printed = <<0, loc.failed_count>>

InventoryFailed == \E k \in 1..Len(log) : log[k].op \in InventoryOps /\ ~log[k].ok

\* C25: when a request of the initial inventory fetch (deployment lookup,
\* organization, config or repository listing) fails, the job stops there with
\* exit status 1: the failed request is the last call of the run, no mutation
\* call and no per-item call is issued, and no target list is derived from what
\* was fetched before the failure.
C25_InventoryFailureIsFatal ==
    InventoryFailed =>
        /\ LastCallFailed(InventoryOps)
        /\ pc \in {"crashed", "exit"}
        /\ exit_code = "1"
        /\ \A k \in 1..Len(log) : log[k].op \notin UnitOps
        /\ loc = NoLoc

\* create-missing-configs has stopped on the failed config listing, after the
\* organizations were listed, with organizations that have no config.
C25_Witness ==
    /\ args.command = "create-missing-configs"
    /\ ~args.dry_run
    /\ Len(world.orgs) = 2
    /\ world.configs = <<>>
    /\ Len(log) = 3
    /\ log[1].op = "list_organizations" /\ log[1].ok
    /\ log[3].op = "list_scm_configs" /\ ~log[3].ok
    /\ pc = "crashed"
    /\ exit_code = "1"

\* The run has ended: after the final report or an early return ("done"), by a
\* validation or error exit ("exit"), or by an uncaught exception ("crashed").
Terminated == pc \in {"done", "exit", "crashed"}

\* C26: every run of every batch command, each of its calls returning,
\* eventually ends, with its final report or with an error exit.
C26_EveryJobTerminates == <>Terminated

\* Streaming trigger-scans has ended with its report after three checks and
\* three flushes, one of them failed.
C26_Witness ==
    /\ args.command = "trigger-scans"
    /\ ~args.skip_scan_check
    /\ pc = "done"
    /\ loc.checked_count = 3
    /\ loc.batch_num = 3
    /\ loc.failed_count = 1
    /\ loc.printed # <<>>

\* ------------------------------------------------- claims: C31 to C40

\* A run of trigger-scans that has entered the check-and-trigger loop.
StreamingRun ==
    /\ args.command = "trigger-scans"
    /\ ~args.skip_scan_check
    /\ ~args.dry_run
    /\ pc \in {"trigger_stream", "trigger_final"} \/ (pc = "done" /\ loc.printed # <<>>)

IsCheckSleep(c) == c.op = "sleep" /\ c.arg[1] = "check_delay"

\* The positions of the per-check delays in the log.
CheckSleepsAt == {j \in 1..Len(log) : IsCheckSleep(log[j])}

ChecksBefore(j) == Cardinality({k \in 1..(j - 1) : log[k].op = "has_full_scan"})

\* C31: in streaming trigger-scans with check_delay > 0 over N repositories the
\* per-check delay is issued once after the processing of each repository but
\* the last (N-1 times in the whole run): the k-th one follows the k-th check
\* and its flush, if any, and precedes the next check, whatever the inter-chunk
\* delay of the flushes is; with check_delay = 0 it is never issued.
C31_CheckDelayBetweenChecks ==
    StreamingRun =>
        /\ Cardinality(CheckSleepsAt) =
              (IF args.check_delay > 0 THEN MinOf(loc.i, Len(loc.repos) - 1) ELSE 0)
        /\ \A j \in CheckSleepsAt :
              /\ ChecksBefore(j) = Cardinality({k \in CheckSleepsAt : k <= j})
              /\ j < Len(log) => log[j + 1].op = "has_full_scan"

\* A streaming run over three repositories has ended with two per-check delays
\* and three flushes, each followed by its inter-chunk delay.
C31_Witness ==
    /\ StreamingRun
    /\ pc = "done"
    /\ args.check_delay > 0
    /\ args.delay > 0
    /\ Len(loc.repos) = 3
    /\ loc.batch_num = 3
    /\ Cardinality(CheckSleepsAt) = 2

\* The ids the calls of op carry, in call order.
IdsCalled(op) ==
    LET calls == SelectSeq(log, LAMBDA c : c.op = op)
    IN  [k \in 1..Len(calls) |-> calls[k].arg[1]]

NoIdTwice(ids) == \A j, k \in 1..Len(ids) : j # k => ids[j] # ids[k]

\* The config of the inventory with the given id is on the GHES URL.
OnGhesUrl(id) ==
    \E k \in 1..Len(world.configs) :
        /\ world.configs[k].id = id
        /\ world.configs[k].base_url \notin {None, <<>>}
        /\ Lower(RStripSlash(world.configs[k].base_url)) = Lower(RStripSlash(args.ghes_url))

\* The config of the inventory with the given id belongs to an org of --orgs.
InOrgList(id) ==
    \E k \in 1..Len(world.configs) :
        /\ world.configs[k].id = id
        /\ \E n \in 1..Len(args.orgs) : Lower(args.orgs[n]) = Lower(world.configs[k].namespace)

\* C32: delete-configs issues a delete call only for configs of the inventory
\* whose normalized base_url equals the normalized GHES URL and whose lower-cased
\* namespace is in the given org list, and at most one delete call per config.
C32_DeleteOnlyNamed ==
    args.command = "delete-configs" =>
        /\ \A k \in 1..Len(IdsCalled("delete_scm_config")) :
              /\ args.orgs # NoList
              /\ OnGhesUrl(IdsCalled("delete_scm_config")[k])
              /\ InOrgList(IdsCalled("delete_scm_config")[k])
        /\ NoIdTwice(IdsCalled("delete_scm_config"))

\* delete-configs --orgs o has ended after its one delete call, for the config
\* of O on the GHES URL; the config of p on the GHES URL is left alone.
C32_Witness ==
    /\ args.command = "delete-configs"
    /\ args.orgs = <<<<"o">>>>
    /\ pc = "done"
    /\ \E k \in 1..Len(world.configs) :
          world.configs[k].namespace = <<"p">> /\ world.configs[k].base_url = UrlG
    /\ Len(IdsCalled("delete_scm_config")) = 1
    /\ OnGhesUrl(IdsCalled("delete_scm_config")[1])

\* The names outside the closed scope set among the required names.
UnknownNames ==
    {world.required[k] : k \in {j \in 1..Len(world.required) :
                                   \A n \in 1..Len(ALL_SCOPES) : world.required[j] # ALL_SCOPES[n]}}

\* C33: has_scopes and missing_scopes never treat a required name outside the
\* closed scope set as a present scope: with such a name in the list has_scopes
\* is false and missing_scopes reports the name, also when the name is that of
\* another attribute of the scopes object (has_scopes, ALL_SCOPES).
C33_UnknownNamesNotPresent ==
    (pc = "has_scopes_checked" /\ UnknownNames # {})
        => /\ ~loc.has
           /\ \A name \in UnknownNames : \E k \in 1..Len(loc.missing) : loc.missing[k] = name

\* The repositories accounted for: triggered, failed, skipped or still pending.
AccountedFor ==
    loc.triggered_count + loc.failed_count + loc.skipped_count + Len(loc.pending_batch)

\* C34: in streaming trigger-scans, after each repository is processed
\* triggered_count + failed_count + skipped_count + len(pending_batch) equals
\* checked_count, the number of repositories processed; at the end of the run
\* the pending buffer is empty and triggered_count + failed_count +
\* skipped_count equals the number of repositories.
C34_StreamingAccounting ==
    StreamingRun =>
        /\ loc.checked_count = loc.i
        /\ AccountedFor = loc.checked_count
        /\ pc = "done" => /\ loc.pending_batch = <<>>
                          /\ loc.triggered_count + loc.failed_count + loc.skipped_count
                                = Len(loc.repos)
                          /\ loc.printed = <<Len(loc.repos), loc.triggered_count,
                                             loc.skipped_count, loc.failed_count>>

\* A streaming run over three repositories has ended with one repository
\* skipped, one triggered and one in a failed chunk, one check having raised.
C34_Witness ==
    /\ StreamingRun
    /\ pc = "done"
    /\ Len(loc.repos) = 3
    /\ loc.skipped_count = 1
    /\ loc.triggered_count = 1
    /\ loc.failed_count = 1
    /\ \E k \in 1..Len(log) : log[k].op = "has_full_scan" /\ ~log[k].ok

\* The id lists of the trigger calls, in call order.
TriggerCalls == SelectSeq(log, LAMBDA c : c.op = "trigger_scans")

\* The ids sent in the k-th trigger call are in no other trigger call and not in
\* the pending buffer.
SentOnce(k) ==
    \A n \in 1..Len(TriggerCalls[k].arg) :
        /\ \A j \in 1..Len(TriggerCalls) :
              j # k => \A m \in 1..Len(TriggerCalls[j].arg) :
                          TriggerCalls[j].arg[m] # TriggerCalls[k].arg[n]
        /\ \A m \in 1..Len(loc.pending_batch) :
              loc.pending_batch[m] # TriggerCalls[k].arg[n]

\* C35: in streaming trigger-scans with batch size B the pending buffer holds
\* fewer than B ids at the end of every loop iteration, every trigger call
\* carries between 1 and B ids, and the buffer is emptied after every trigger
\* call, failed or not: the ids of a chunk are sent once and never again.
C35_StreamingChunks ==
    StreamingRun =>
        /\ Len(loc.pending_batch) < args.batch_size
        /\ \A k \in 1..Len(TriggerCalls) :
              /\ Len(TriggerCalls[k].arg) >= 1
              /\ Len(TriggerCalls[k].arg) <= args.batch_size
              /\ SentOnce(k)
        /\ Len(TriggerCalls) = loc.batch_num

\* A streaming run with batch size 2 over three repositories has ended after a
\* failed chunk of two ids and a last chunk of one id.
C35_Witness ==
    /\ StreamingRun
    /\ pc = "done"
    /\ args.batch_size = 2
    /\ Len(TriggerCalls) = 2
    /\ ~TriggerCalls[1].ok
    /\ Len(TriggerCalls[1].arg) = 2
    /\ TriggerCalls[2].ok
    /\ Len(TriggerCalls[2].arg) = 1
    /\ loc.failed_count = 2

\* The checks whose repository is to be scanned: has_full_scan answered false
\* or raised.
ChecksToTrigger ==
    SelectSeq(log, LAMBDA c : c.op = "has_full_scan" /\ c.res # "true")

\* The position in the log of the k-th trigger call.
TriggerCallAt(k) ==
    CHOOSE j \in 1..Len(log) :
        /\ log[j].op = "trigger_scans"
        /\ Cardinality({m \in 1..j : log[m].op = "trigger_scans"}) = k

\* The position in the log of the check of repository id.
CheckAt(id) ==
    CHOOSE j \in 1..Len(log) : log[j].op = "has_full_scan" /\ log[j].arg[1] = id

\* C36: in streaming trigger-scans over repositories with distinct ids, the ids
\* of the trigger calls, in call order, followed by the pending buffer, are the
\* ids of the repositories whose check reported no full scan or raised, in
\* input order: a repository with a full scan is in no trigger call, every other
\* one is in one trigger call once the run has ended, and every trigger call
\* comes after the checks of the ids it carries.
C36_TriggeredAreUnscanned ==
    StreamingRun =>
        /\ ConcatArgs(TriggerCalls) \o loc.pending_batch = ConcatArgs(ChecksToTrigger)
        /\ \A k \in 1..Len(TriggerCalls) :
              \A n \in 1..Len(TriggerCalls[k].arg) :
                  CheckAt(TriggerCalls[k].arg[n]) < TriggerCallAt(k)
        /\ [k \in 1..loc.i |-> loc.repos[k].id]
              = ConcatArgs(SelectSeq(log, LAMBDA c : c.op = "has_full_scan"))
        /\ pc = "done" => loc.pending_batch = <<>>

\* A streaming run over three repositories has ended: the first has a full
\* scan and is in no trigger call, the check of the second raised and the third
\* has none, and both were sent, in that order.
C36_Witness ==
    /\ StreamingRun
    /\ pc = "done"
    /\ Len(loc.repos) = 3
    /\ \E k \in 1..Len(log) :
          log[k].op = "has_full_scan" /\ log[k].arg[1] = loc.repos[1].id /\ log[k].res = "true"
    /\ \E k \in 1..Len(log) :
          log[k].op = "has_full_scan" /\ log[k].arg[1] = loc.repos[2].id /\ log[k].res = "error"
    /\ ConcatArgs(TriggerCalls) = <<loc.repos[2].id, loc.repos[3].id>>

\* The repositories submitted in the bulk-update and trigger calls of the log.
SubmittedRepos ==
    {r \in Range(world.repos) :
        \E k \in 1..Len(log) :
            /\ log[k].op \in {"bulk_update_repos", "trigger_scans"}
            /\ \E n \in 1..Len(log[k].arg) : log[k].arg[n] = r.id}

\* C37: in onboard-repos and trigger-scans no archived repository is submitted
\* in a bulk-update or trigger call; with a GHES URL given the base URL of every
\* submitted repository, lower-cased, is the normalized GHES URL; and with SCM
\* checking enabled the pair of every submitted repository is that of a config
\* that meets the requirements.
C37_TargetsAreGated ==
    args.command \in {"onboard-repos", "trigger-scans"} =>
        \A r \in SubmittedRepos :
            /\ ~r.is_archived
            /\ Truthy(args.ghes_url)
                  => /\ HasPair(r)
                     /\ RepoNormPair(r)[1] = Lower(RStripSlash(args.ghes_url))
            /\ args.check_scm => RepoOfSome(r, MeetingConfigs)

\* onboard-repos with a GHES URL and SCM checking has submitted one repository
\* of three: an archived one and one of another server were left out.
C37_Witness ==
    /\ args.command = "onboard-repos"
    /\ Truthy(args.ghes_url)
    /\ args.check_scm
    /\ pc = "done"
    /\ Cardinality(SubmittedRepos) = 1
    /\ \E r \in Range(world.repos) : r.is_archived
    /\ \E r \in Range(world.repos) : r.url = RepoUrlHO

\* The ids of the configs update-configs is to patch: on the GHES URL and, when
\* orgs are named, of a named org.
ToPatch ==
    {world.configs[k].id :
        k \in {j \in 1..Len(world.configs) :
                  /\ OnGhesUrl(world.configs[j].id)
                  /\ (args.orgs # NoList /\ args.orgs # <<>>) => InOrgList(world.configs[j].id)}}

NoUpdateGiven ==
    /\ args.subscribe = "None"
    /\ args.auto_scan = "None"
    /\ args.use_network_broker = "None"
    /\ args.diff_enabled = "None"

\* C40: update-configs issues a patch call only for configs whose normalized
\* base_url equals the normalized GHES URL and, when orgs are named, whose
\* lower-cased namespace is among them; never two for one config; none at all
\* when no update field is given; and a run with an update field that has ended
\* its loop has issued one patch call for each such config.
C40_PatchOnlyMatching ==
    args.command = "update-configs" =>
        /\ \A k \in 1..Len(IdsCalled("patch_scm_config")) :
              IdsCalled("patch_scm_config")[k] \in ToPatch
        /\ NoIdTwice(IdsCalled("patch_scm_config"))
        /\ NoUpdateGiven => IdsCalled("patch_scm_config") = <<>>
        /\ (pc = "done" /\ ~NoUpdateGiven /\ ~args.dry_run)
              => \A id \in ToPatch :
                    \E k \in 1..Len(IdsCalled("patch_scm_config")) :
                        IdsCalled("patch_scm_config")[k] = id

\* update-configs --subscribe false without --orgs has ended after its one
\* patch call, for the config on the GHES URL; the config of another server is
\* left alone.
C40_Witness ==
    /\ args.command = "update-configs"
    /\ args.subscribe = "False"
    /\ args.orgs = NoList
    /\ pc = "done"
    /\ Len(world.configs) = 2
    /\ \E k \in 1..Len(world.configs) : world.configs[k].base_url = UrlH
    /\ Len(IdsCalled("patch_scm_config")) = 1
    /\ IdsCalled("patch_scm_config")[1] \in ToPatch

\* The check calls of the log, in call order.
CheckCalls == SelectSeq(log, LAMBDA c : c.op = "check_scm_config")

\* A config carrying the status and the token scopes of a check result.
ConfigCarrying(result) ==
    ScmConfig(0, <<"o">>, UrlG, result.status, result.token_scopes)

\* C38: check-configs counts a config healthy exactly when its check call
\* returned and ScmConfig.meets_requirements holds of a config carrying the
\* status and token scopes of the result, with the same required scopes; a
\* check call that raised counts as unhealthy; and healthy + unhealthy is the
\* number of configs checked, at the end the number of matching configs.
C38_CheckClassifies ==
    (args.command = "check-configs" /\ pc \in {"check_loop", "check_report", "done"})
        => /\ Len(CheckCalls) = loc.i
           /\ Len(loc.results) = loc.i
           /\ \A k \in 1..MinOf(Len(CheckCalls), Len(loc.results)) :
                 (CheckCalls[k].res = "healthy")
                    = (/\ CheckCalls[k].ok
                       /\ meets_requirements(ConfigCarrying(loc.results[k]),
                                             args.required_scopes))
           /\ loc.healthy = Cardinality({k \in 1..Len(CheckCalls) : CheckCalls[k].res = "healthy"})
           /\ loc.healthy + loc.unhealthy = loc.i
           /\ pc \in {"check_report", "done"} => loc.i = Len(loc.matching_configs)

\* check-configs --required-scopes read_contents has ended after two checks:
\* one result ok but without the scope (unhealthy), one ok with it (healthy).
C38_Witness ==
    /\ args.command = "check-configs"
    /\ args.required_scopes = <<"read_contents">>
    /\ pc = "done"
    /\ Len(loc.results) = 2
    /\ loc.results[1] = ScmCheckResult(TRUE, ScmTokenScopes({}))
    /\ loc.results[2] = ScmCheckResult(TRUE, ScmTokenScopes({"read_contents"}))
    /\ CheckCalls[1].ok /\ CheckCalls[2].ok
    /\ loc.healthy = 1
    /\ loc.unhealthy = 1

\* The health checks of the log that followed a create, in call order.
CreateChecks == SelectSeq(log, LAMBDA c : c.op = "check_scm_config")

\* The create call at position j of the log returned and is followed by the
\* health check of the new config.
FollowedByCheck(j) ==
    (log[j].op = "create_scm_config" /\ log[j].ok)
        => (j < Len(log) /\ log[j + 1].op = "check_scm_config")

\* The names given with --orgs or --orgs-file that no organization of GHES
\* bears, case ignored.
NamesNotFound ==
    {SpecifiedOrgNames(args)[k] :
        k \in {j \in 1..Len(SpecifiedOrgNames(args)) :
                  /\ SpecifiedOrgNames(args) # NoList
                  /\ \A n \in 1..Len(world.orgs) :
                        Lower(world.orgs[n].login) # Lower(SpecifiedOrgNames(args)[j])}}

\* C39: in create-missing-configs, after each organization is processed
\* created + failed is the number of organizations processed and unhealthy <=
\* created; created counts the create calls that returned, whatever the health
\* check that follows each of them answers (connected, not connected, raised);
\* and every create call is for an organization GHES lists, so a given name
\* that no organization bears never receives a create call.
C39_CreateAccounting ==
    args.command = "create-missing-configs" =>
        /\ loc.created + loc.failed = loc.i
        /\ loc.unhealthy <= loc.created
        /\ Len(CreatedLogins) = loc.i
        /\ loc.created = Cardinality({k \in 1..Len(CreatedLogins) : CreatedLogins[k].ok})
        /\ loc.failed = Cardinality({k \in 1..Len(CreatedLogins) : ~CreatedLogins[k].ok})
        /\ Len(CreateChecks) = loc.created
        /\ loc.unhealthy =
              Cardinality({k \in 1..Len(CreateChecks) : CreateChecks[k].res = "not_connected"})
        /\ \A j \in 1..Len(log) : FollowedByCheck(j)
        /\ \A k \in 1..Len(CreatedLogins) :
              /\ \E n \in 1..Len(world.orgs) : world.orgs[n].login = CreatedLogins[k].arg[1]
              /\ \A name \in NamesNotFound : Lower(name) # Lower(CreatedLogins[k].arg[1])

\* create-missing-configs --orgs q o has ended: q is not on GHES and got no
\* create call; the create for O returned and its health check raised, and it
\* counts as created.
C39_Witness ==
    /\ args.command = "create-missing-configs"
    /\ args.orgs = <<<<"q">>, <<"o">>>>
    /\ pc = "done"
    /\ <<"q">> \in NamesNotFound
    /\ Len(CreatedLogins) = 1
    /\ CreatedLogins[1].arg[1] = <<"O">>
    /\ CreatedLogins[1].ok
    /\ Len(CreateChecks) = 1
    /\ ~CreateChecks[1].ok
    /\ loc.printed = <<1, 0, 0>>

====
